---------------------------- MODULE Spec2Model ----------------------------
(***************************************************************************)
(* A model of the MBPT integral engine of AMBiT:                           *)
(*   - OrbitalInfo (HartreeFock/OrbitalInfo.h),                            *)
(*   - the valence perturbation sums of ValenceCalculator and              *)
(*     ValenceMBPTCalculator (MBPT/ValenceCalculator.cpp,                  *)
(*     MBPT/ValenceMBPTCalculator.cpp),                                    *)
(*   - the radial integral stores (MBPT/SlaterIntegrals.h and the          *)
(*     one_body / two_body stores of ValenceMBPTCalculator),               *)
(*   - the BruecknerDecorator (MBPT/BruecknerDecorator.cpp).               *)
(*                                                                         *)
(* Floating point numbers are modelled by exact rationals <<n, d>>, d > 0, *)
(* in lowest terms: "exactly 0.0" is <<0, 1>>.  Radial integrals, matrix   *)
(* elements and 3j/6j symbols come from numerical services that are not    *)
(* part of the engine; they are modelled by fixed functions that keep the  *)
(* documented symmetries and exact zeros.                                  *)
(***************************************************************************)
EXTENDS Integers, Sequences, FiniteSets, TLC

----------------------------------------------------------------------------
(* Bounds of the model.                                                    *)

\* Principal quantum numbers run over MinPQN .. MinPQN + PQNSpan.
PQNSpan == 2

\* Multipoles k of the external two-electron integral run over 0 .. MaxMultipole.
MaxMultipole == 1

\* Lattice sizes and wavefunction sizes run over 1 .. MaxSize.
MaxSize == 2

\* Number of SigmaPotential objects that can be allocated in one run.
MaxObjects == 2

\* A SpinorODE is wrapped in at most MaxDepth decorators below the outermost.
MaxDepth == 4

\* The kappa of an OrbitalInfo built on its own runs over
\* -MaxAbsKappa .. MaxAbsKappa without 0.
MaxAbsKappa == 3

----------------------------------------------------------------------------
(* Exact rational arithmetic standing in for double.                       *)

Abs(x) == IF x < 0 THEN -x ELSE x

RECURSIVE Gcd(_, _)
Gcd(a, b) == IF b = 0 THEN a ELSE Gcd(b, a % b)

\* The rational n/d in lowest terms with a positive denominator; as for
\* double, n/0 is the infinity of the sign of n and 0/0 is not a number.
Rat(n, d) ==
    IF d = 0 THEN <<(IF n > 0 THEN 1 ELSE IF n < 0 THEN -1 ELSE 0), 0>>
    ELSE LET g == Gcd(Abs(n), Abs(d))
             s == IF d < 0 THEN -1 ELSE 1
         IN  <<(s * n) \div g, (s * d) \div g>>

RInt(n) == <<n, 1>>
RZero == <<0, 1>>

\* What a lookup of an integral that is not stored yields in place of a
\* value: not a number.  Arithmetic on it yields it again, so an evaluation
\* that has used it has no value.
NotYetComputed == <<0, 0>>

\* x is a number: neither an infinity nor not a number.
Finite(x) == x[2] > 0

RAdd(x, y) ==
    IF x = NotYetComputed \/ y = NotYetComputed THEN NotYetComputed
    ELSE Rat(x[1] * y[2] + y[1] * x[2], x[2] * y[2])
RNeg(x) == <<-x[1], x[2]>>
RSub(x, y) == RAdd(x, RNeg(y))
RMul(x, y) ==
    IF x = NotYetComputed \/ y = NotYetComputed THEN NotYetComputed
    ELSE Rat(x[1] * y[1], x[2] * y[2])
\* x / y
RDiv(x, y) ==
    IF x = NotYetComputed \/ y = NotYetComputed THEN NotYetComputed
    ELSE Rat(x[1] * y[2], x[2] * y[1])
RIsZero(x) == x = RZero

\* The sum f[1] + ... + f[n], accumulated in index order like `energy += term'.
RECURSIVE RSumTo(_, _)
RSumTo(f, n) == IF n = 0 THEN RZero ELSE RAdd(RSumTo(f, n - 1), f[n])

RSumSeq(f) == RSumTo(f, Len(f))

----------------------------------------------------------------------------
(* OrbitalInfo: pqn and kappa, with the derived angular quantum numbers.   *)

\* The hard-coded Q-space cutoff of ValenceCalculator: s.PQN() >= 5.
QSpaceCutoff == 5

Kappas == {-1, 1, -2}
MinPQN == QSpaceCutoff - 1
PQNs == MinPQN .. (MinPQN + PQNSpan)
OrbitalInfo(pqn, kappa) == [pqn |-> pqn, kappa |-> kappa]
AllOrbitals == {OrbitalInfo(n, kap) : n \in PQNs, kap \in Kappas}

PQN(s) == s.pqn
Kappa(s) == s.kappa
L(s) == IF s.kappa > 0 THEN s.kappa ELSE -s.kappa - 1
TwoJ(s) == 2 * Abs(s.kappa) - 1
MaxNumElectrons(s) == 2 * Abs(s.kappa)

\* A faulty L_Prime: the L of the upper component.
L_PrimeOfUpper(s) == IF s.kappa > 0 THEN s.kappa ELSE -s.kappa - 1

\* OrbitalInfo::L_Prime(): the L of the lower component.
L_Prime(s) == IF s.kappa < 0 THEN -s.kappa ELSE s.kappa - 1

\* OrbitalInfo::J(): fabs(double(kappa)) - 0.5
J(s) == RSub(RInt(Abs(s.kappa)), Rat(1, 2))

\* operator< of OrbitalInfo: by pqn, then by kappa.
OrbitalLess(s1, s2) ==
    \/ s1.pqn < s2.pqn
    \/ s1.pqn = s2.pqn /\ s1.kappa < s2.kappa

\* The orbitals of a map in iteration order (std::map order of the keys).
OrbitalSeq(S) ==
    [i \in 1 .. Cardinality(S) |->
        CHOOSE x \in S : Cardinality({y \in S : OrbitalLess(y, x)}) = i - 1]

----------------------------------------------------------------------------
(* Numerical services consumed by the engine.  They are not part of the    *)
(* engine; each is a fixed function with the documented zeros and          *)
(* symmetries, nonzero wherever the selection rules allow.                 *)

\* Triangle rule for angular momenta given as twice their value.
Triangle(twoj1, twoj2, twoj3) ==
    /\ Abs(twoj1 - twoj2) <= twoj3
    /\ twoj3 <= twoj1 + twoj2

\* MathConstant::Electron3j(2 j1, 2 j2, k) = (j1 j2 k; 1/2 -1/2 0):
\* exactly zero when (j1, j2, k) violates the triangle rule.
Electron3j(twoj1, twoj2, k) ==
    IF Triangle(twoj1, twoj2, 2 * k) THEN RInt(1) ELSE RZero

\* MathConstant::Wigner6j(j1, j2, j3, j4, j5, j6), arguments as twice their
\* value: exactly zero unless the four triads satisfy the triangle rule.
Wigner6j(tj1, tj2, tj3, tj4, tj5, tj6) ==
    IF /\ Triangle(tj1, tj2, tj3)
       /\ Triangle(tj1, tj5, tj6)
       /\ Triangle(tj4, tj2, tj6)
       /\ Triangle(tj4, tj5, tj3)
    THEN RInt(1) ELSE RZero

\* MathConstant::minus_one_to_the_power(n)
minus_one_to_the_power(n) == IF n % 2 = 0 THEN RInt(1) ELSE RInt(-1)

\* A weight that tells the radial shapes of the orbitals apart.
Shape(s) == 3 * s.pqn + L(s)

\* Orbital::Energy(): bound states in units of delta; the first levels rise
\* with pqn, the higher ones are exactly degenerate with the valence level
\* of their kappa; the levels of kappa = -2 lie a third of delta above the
\* others.
Energy(s) ==
    RAdd(IF s.pqn >= MinPQN + 2 THEN RInt(-6) ELSE RInt(2 * (s.pqn - MinPQN) - 6),
         IF s.kappa = -2 THEN Rat(1, 3) ELSE RZero)

\* The radial Slater integral R_k(ab, cd), a -> c, b -> d, as produced by
\* CoulombIntegrator followed by the dR-weighted contraction; it has the
\* symmetries R_k(ab,cd) = R_k(ba,dc) = R_k(cd,ab) = R_k(cb,ad).
RadialIntegral(k, a, b, c, d) ==
    RInt(1 + ((k + Shape(a) * Shape(c) + Shape(b) * Shape(d)) % 3))

\* StateIntegrator::HamiltonianMatrixElement(a, b) = <a|H|b>, symmetric.
HamiltonianMatrixElement(a, b) == RInt(1 + ((Shape(a) + Shape(b)) % 2))

\* StateIntegrator::IsotopeShiftIntegral(a, b) = <a|p|b>, antisymmetric.
IsotopeShiftIntegral(a, b) == RInt(Shape(a) - Shape(b))

\* A faulty regularisation: none.
deltaZero == RZero

\* MBPTCalculator::delta, the regularisation added to every denominator.
delta == RInt(1)

\* MBPTCalculator::InQSpace(s): pqn at or above the Q-space cutoff.
InQSpace(s) == s.pqn >= QSpaceCutoff

\* MBPTCalculator::InQSpace(s1, s2): at least one of the lines is in Q-space.
InQSpace2(s1, s2) == InQSpace(s1) \/ InQSpace(s2)

\* MBPTCalculator::kmin / kmax: the multipoles allowed by the triangle rule
\* for the L sums; the loops step by 2 and so keep the parity of kmin.
kmin(a, b) == Abs(L(a) - L(b))
kmax(a, b) == L(a) + L(b)

\* The values k0, k0 + 2, ... <= top of a `k += 2' loop, in order.
KLoop(k0, top) ==
    IF k0 > top THEN <<>>
    ELSE [i \in 1 .. ((top - k0) \div 2 + 1) |-> k0 + 2 * (i - 1)]

----------------------------------------------------------------------------
(* State.                                                                  *)

VARIABLES
    \* OrbitalManager: the orbital maps the calculators iterate over.
    excited, high,
    \* MBPTCalculator::ValenceEnergies, kappa -> reference energy.
    ValenceEnergies,
    \* ValenceCalculator::MaxStateSize
    MaxStateSize,
    \* ValenceMBPTCalculator::one_body and two_body, key -> value.
    one_body, two_body,
    \* SlaterIntegrals: the state index and the three integral stores.
    state_index, OneElectronIntegrals, SMSIntegrals, TwoElectronIntegrals,
    include_valence_sms,
    \* The last operation on the integral stores and what it returned.
    cacheOp,
    \* The evaluation of the perturbation engine in progress, if any.
    call,
    \* BruecknerDecorator: sigmas, currentExchangePotential, include_nonlocal,
    \* lambda, and the size of its lattice.
    sigmas, currentExchangePotential, include_nonlocal, lambda, latticeSize,
    \* The files identifier.kappa.sigma, and the SigmaPotential objects and
    \* BruecknerSigmaCalculator runs made so far.
    files, numObjects, numSigmaCalculations,
    \* The last operation on the decorator and what it returned.
    lastOp,
    \* include_nonlocal of the objects below the decorator: of the one it
    \* wraps, of the one that wraps, and so on down to the innermost SpinorODE.
    wrapped_include_nonlocal

engineVars == <<excited, high, ValenceEnergies, MaxStateSize, one_body, two_body>>
slaterVars == <<state_index, OneElectronIntegrals, SMSIntegrals, TwoElectronIntegrals,
                include_valence_sms>>
bruecknerVars == <<sigmas, currentExchangePotential, include_nonlocal, lambda,
                   wrapped_include_nonlocal,
                   latticeSize, files, numObjects, numSigmaCalculations, lastOp>>
vars == <<engineVars, slaterVars, cacheOp, call, bruecknerVars>>
notBrueckner == <<engineVars, slaterVars, cacheOp, call>>

\* The external lines: the valence orbitals 4s and 4p3/2.
valence == {OrbitalInfo(MinPQN, -1), OrbitalInfo(MinPQN, -2)}

\* The closed-shell core: one orbital below every excited orbital and one
\* of the lowest excited shell (no excited orbital has its kappa).
core == {OrbitalInfo(MinPQN - 1, -1), OrbitalInfo(MinPQN, 2)}

\* All orbitals of one principal quantum number.
Shell(n) == {s \in AllOrbitals : s.pqn = n}

----------------------------------------------------------------------------
(* Keys of the integral stores.                                            *)

\* NumStates = core.NumStates() + excited.NumStates(), for the largest basis.
NumStates == Cardinality(core) + Cardinality(AllOrbitals)

\* kappa = -1, 1, -2, 2, ... -> 0, 1, 2, 3, ...
KappaRank(kap) == IF kap < 0 THEN 2 * (-kap - 1) ELSE 2 * kap - 1

\* The index of an orbital: the core orbitals come first, in the order of
\* their map; the excited orbitals follow, ordered by pqn first.
StateIndex(s) ==
    IF s \in core
    THEN Cardinality({c \in core : OrbitalLess(c, s)})
    ELSE Cardinality(core) + (s.pqn - MinPQN) * Cardinality(Kappas) + KappaRank(s.kappa)

\* A faulty key of <i|H|j>: the indices in the order given.
OneElectronKeyAsGiven(s1, s2) == StateIndex(s1) * NumStates + StateIndex(s2)

\* Key of <i|H|j>: the smaller index first.
OneElectronKey(s1, s2) ==
    LET i1 == StateIndex(s1)
        i2 == StateIndex(s2)
    IN  IF i1 <= i2 THEN i1 * NumStates + i2 ELSE i2 * NumStates + i1

\* LongKey of (k, i1, i2, i3, i4).
PackKey(k, q) ==
    (((k * NumStates + q[1]) * NumStates + q[2]) * NumStates + q[3]) * NumStates + q[4]

\* The orderings of R_k(i1 i2, i3 i4) that name the same radial integral.
EquivalentOrderings(q) ==
    LET swap12(x) == <<x[2], x[1], x[4], x[3]>>
        swap13(x) == <<x[3], x[2], x[1], x[4]>>
        swap24(x) == <<x[1], x[4], x[3], x[2]>>
        A == {q, swap12(q)}
        B == A \cup {swap13(x) : x \in A}
    IN  B \cup {swap24(x) : x \in B}

\* A faulty ordering: the indices are left as the caller gave them.
TwoElectronIntegralOrderingAsGiven(q) == q

\* The stored ordering: the equivalent ordering with the smallest key.
TwoElectronIntegralOrdering(q) ==
    CHOOSE c \in EquivalentOrderings(q) :
        \A o \in EquivalentOrderings(q) : PackKey(0, c) <= PackKey(0, o)

\* What TwoElectronIntegralOrdering returns: false if the SMS sign needs to
\* be changed, which is when the stored ordering differs from q by an odd
\* number of exchanges of a line with its partner (i1 with i3, i2 with i4);
\* exchanging the two electrons (i1 with i2 and i3 with i4) keeps the sign.
SMSSignKept(q) ==
    LET swap12(x) == <<x[2], x[1], x[4], x[3]>>
        both(x) == <<x[3], x[4], x[1], x[2]>>
    IN  TwoElectronIntegralOrdering(q) \in {q, swap12(q), both(q), both(swap12(q))}

TwoElectronKey(k, s1, s2, s3, s4) ==
    PackKey(k, TwoElectronIntegralOrdering(
                  <<StateIndex(s1), StateIndex(s2), StateIndex(s3), StateIndex(s4)>>))

----------------------------------------------------------------------------
(* ValenceMBPTCalculator: the sums over the stored integrals.              *)

\* The result of an evaluation: the energy, and what the evaluation touched:
\* intermediate orbitals (or pairs) visited, ValenceEnergies lookups,
\* matrix elements fetched or integrated, radial integrals fetched or
\* integrated.
Result(energy, visited, ve, me, ri) ==
    [energy |-> energy, visited |-> visited, ve |-> ve, me |-> me, ri |-> ri]

\* The sum of the results r[lo..hi]; exact arithmetic makes the order of
\* the additions immaterial, so the range is halved to keep the recursion
\* shallow; the counts are added before the energies.
RECURSIVE SumRange(_, _, _)
SumRange(r, lo, hi) ==
    IF lo = hi THEN r[lo]
    ELSE IF lo > hi THEN Result(RZero, 0, 0, 0, 0)
    ELSE LET x == SumRange(r, lo, (lo + hi) \div 2)
             y == SumRange(r, (lo + hi) \div 2 + 1, hi)
         IN  [visited |-> x.visited + y.visited, ve |-> x.ve + y.ve,
              me |-> x.me + y.me, ri |-> x.ri + y.ri,
              energy |-> RAdd(x.energy, y.energy)]

\* The sum of the results r[1..n]: energies and counts both add up.
SumResults(r, n) == SumRange(r, 1, n)

\* A faulty lookup: an integral that is not stored reads as 0.
GetMatrixElementOrZero(s1, s2) ==
    IF OneElectronKey(s1, s2) \in DOMAIN one_body
    THEN one_body[OneElectronKey(s1, s2)] ELSE RZero

\* one_body->GetMatrixElement(s1, s2)
GetMatrixElement(s1, s2) ==
    IF OneElectronKey(s1, s2) \in DOMAIN one_body
    THEN one_body[OneElectronKey(s1, s2)] ELSE NotYetComputed

\* two_body->GetTwoElectronIntegral(k, s1, s2, s3, s4)
GetTwoElectronIntegral(k, s1, s2, s3, s4) ==
    IF TwoElectronKey(k, s1, s2, s3, s4) \in DOMAIN two_body
    THEN two_body[TwoElectronKey(k, s1, s2, s3, s4)] ELSE NotYetComputed

CalculateOneElectronSub(sa, sb) ==
    LET ValenceEnergy == ValenceEnergies[Kappa(sa)]
        alphas == OrbitalSeq(high)
        Term(salpha) ==
            IF InQSpace(salpha) /\ Kappa(sa) = Kappa(salpha)
            THEN LET term == RMul(GetMatrixElement(sa, salpha), GetMatrixElement(salpha, sb))
                 IN  Result(RDiv(term, RAdd(RSub(ValenceEnergy, Energy(salpha)), delta)),
                            1, 0, 2, 0)
            ELSE Result(RZero, 1, 0, 0, 0)
        sum == SumResults([i \in 1 .. Len(alphas) |-> Term(alphas[i])], Len(alphas))
    IN  [sum EXCEPT !.ve = 1]

\* A faulty k2 loop: the sign does not follow the parity of k1 + k2.
BoxInnerSumUnsigned(k, k1, R1, coeff_ab, coeff_alphabeta, sa, sb, sc, sd, salpha, sbeta) ==
    LET k2s == KLoop(kmin(salpha, sc), kmax(salpha, sc))
        Term(k2) ==
            LET c3j == RMul(Electron3j(TwoJ(salpha), TwoJ(sc), k2),
                            Electron3j(TwoJ(sbeta), TwoJ(sd), k2))
                c6j == IF RIsZero(c3j) THEN c3j
                       ELSE RMul(c3j,
                              RMul(Wigner6j(TwoJ(sc), TwoJ(sa), 2 * k, 2 * k1, 2 * k2, TwoJ(salpha)),
                                   Wigner6j(TwoJ(sd), TwoJ(sb), 2 * k, 2 * k1, 2 * k2, TwoJ(sbeta))))
            IN  IF RIsZero(c6j) THEN Result(RZero, 0, 0, 0, 0)
                ELSE LET coeff == RMul(RMul(c6j, coeff_ab), coeff_alphabeta)
                         R2 == GetTwoElectronIntegral(k2, salpha, sbeta, sc, sd)
                     IN  Result(RMul(RMul(R1, R2), coeff), 0, 0, 0, 1)
    IN  SumResults([i \in 1 .. Len(k2s) |-> Term(k2s[i])], Len(k2s))

\* A faulty k2 loop: R2 is fetched before the coefficient is looked at.
BoxInnerSumFetchFirst(k, k1, R1, coeff_ab, coeff_alphabeta, sa, sb, sc, sd, salpha, sbeta) ==
    LET k2s == KLoop(kmin(salpha, sc), kmax(salpha, sc))
        Term(k2) ==
            LET c3j == RMul(Electron3j(TwoJ(salpha), TwoJ(sc), k2),
                            Electron3j(TwoJ(sbeta), TwoJ(sd), k2))
                c6j == IF RIsZero(c3j) THEN c3j
                       ELSE RMul(c3j,
                              RMul(Wigner6j(TwoJ(sc), TwoJ(sa), 2 * k, 2 * k1, 2 * k2, TwoJ(salpha)),
                                   Wigner6j(TwoJ(sd), TwoJ(sb), 2 * k, 2 * k1, 2 * k2, TwoJ(sbeta))))
                c == RMul(RMul(c6j, coeff_ab), coeff_alphabeta)
                coeff == IF (k1 + k2) % 2 # 0 THEN RNeg(c) ELSE c
                R2 == GetTwoElectronIntegral(k2, salpha, sbeta, sc, sd)
            IN  IF RIsZero(c6j) THEN Result(RZero, 0, 0, 0, 1)
                ELSE Result(RMul(RMul(R1, R2), coeff), 0, 0, 0, 1)
    IN  SumResults([i \in 1 .. Len(k2s) |-> Term(k2s[i])], Len(k2s))

\* The k2 loop of the box sum for one k1: the sum of R1 * R2 * coeff.
BoxInnerSum(k, k1, R1, coeff_ab, coeff_alphabeta, sa, sb, sc, sd, salpha, sbeta) ==
    LET k2s == KLoop(kmin(salpha, sc), kmax(salpha, sc))
        Term(k2) ==
            LET c3j == RMul(Electron3j(TwoJ(salpha), TwoJ(sc), k2),
                            Electron3j(TwoJ(sbeta), TwoJ(sd), k2))
                c6j == IF RIsZero(c3j) THEN c3j
                       ELSE RMul(c3j,
                              RMul(Wigner6j(TwoJ(sc), TwoJ(sa), 2 * k, 2 * k1, 2 * k2, TwoJ(salpha)),
                                   Wigner6j(TwoJ(sd), TwoJ(sb), 2 * k, 2 * k1, 2 * k2, TwoJ(sbeta))))
            IN  IF RIsZero(c6j) THEN Result(RZero, 0, 0, 0, 0)
                ELSE LET c == RMul(RMul(c6j, coeff_ab), coeff_alphabeta)
                         coeff == IF (k1 + k2) % 2 # 0 THEN RNeg(c) ELSE c
                         R2 == GetTwoElectronIntegral(k2, salpha, sbeta, sc, sd)
                     IN  Result(RMul(RMul(R1, R2), coeff), 0, 0, 0, 1)
    IN  SumResults([i \in 1 .. Len(k2s) |-> Term(k2s[i])], Len(k2s))

\* A faulty test of the pair: the parity of the second vertex is not looked
\* at.
PairConditionFirstVertex(sa, sb, sc, sd, salpha, sbeta) ==
    /\ InQSpace2(salpha, sbeta)
    /\ (L(sa) + L(salpha)) % 2 = (L(sb) + L(sbeta)) % 2

\* The test a pair (alpha, beta) has to pass in the box sum:
\* InQSpace(salpha, sbeta) && (La + Lalpha)%2 == (Lb + Lbeta)%2
\*                          && (Lalpha + Lc)%2 == (Lbeta + Ld)%2
PairCondition(sa, sb, sc, sd, salpha, sbeta) ==
    /\ InQSpace2(salpha, sbeta)
    /\ (L(sa) + L(salpha)) % 2 = (L(sb) + L(sbeta)) % 2
    /\ (L(salpha) + L(sc)) % 2 = (L(sbeta) + L(sd)) % 2

\* The body of the box sum for one pair (alpha, beta) of excited orbitals.
BoxPairSum(k, sa, sb, sc, sd, salpha, sbeta, coeff_ac, coeff_bd, ValenceEnergy) ==
    IF PairCondition(sa, sb, sc, sd, salpha, sbeta)
    THEN LET weight == RInt(MaxNumElectrons(salpha) * MaxNumElectrons(sbeta) * (2 * k + 1))
             denom == RAdd(RSub(RSub(ValenceEnergy, Energy(salpha)), Energy(sbeta)), delta)
             exponent == (TwoJ(sa) + TwoJ(sb) + TwoJ(sc) + TwoJ(sd)
                          + TwoJ(salpha) + TwoJ(sbeta)) \div 2
             coeff_alphabeta ==
                 RMul(RDiv(RDiv(weight, RMul(coeff_ac, coeff_bd)), denom),
                      minus_one_to_the_power(exponent + k + 1))
             k1s == KLoop(kmin(sa, salpha), kmax(sa, salpha))
             Term(k1) ==
                 LET coeff_ab == RMul(Electron3j(TwoJ(sa), TwoJ(salpha), k1),
                                      Electron3j(TwoJ(sb), TwoJ(sbeta), k1))
                 IN  IF RIsZero(coeff_ab) THEN Result(RZero, 0, 0, 0, 0)
                     ELSE LET R1 == GetTwoElectronIntegral(k1, sa, sb, salpha, sbeta)
                              inner == BoxInnerSum(k, k1, R1, coeff_ab, coeff_alphabeta,
                                                   sa, sb, sc, sd, salpha, sbeta)
                          IN  [inner EXCEPT !.ri = @ + 1]
             sum == SumResults([i \in 1 .. Len(k1s) |-> Term(k1s[i])], Len(k1s))
         IN  [sum EXCEPT !.visited = 1]
    ELSE Result(RZero, 1, 0, 0, 0)

CalculateTwoElectronValence(k, sa, sb, sc, sd) ==
    LET coeff_ac == Electron3j(TwoJ(sa), TwoJ(sc), k)
        coeff_bd == Electron3j(TwoJ(sb), TwoJ(sd), k)
    IN  IF RIsZero(coeff_ac) \/ RIsZero(coeff_bd)
        THEN Result(RZero, 0, 0, 0, 0)
        ELSE LET ValenceEnergy == RAdd(ValenceEnergies[Kappa(sa)], ValenceEnergies[Kappa(sb)])
                 es == OrbitalSeq(excited)
                 n == Len(es)
                 Beta(salpha) ==
                     SumResults([j \in 1 .. n |->
                                    BoxPairSum(k, sa, sb, sc, sd, salpha, es[j],
                                               coeff_ac, coeff_bd, ValenceEnergy)], n)
                 sum == SumResults([i \in 1 .. n |-> Beta(es[i])], n)
             IN  [sum EXCEPT !.ve = 2]

\* A faulty CalculateTwoElectronSub: every term is divided by the energy
\* denominator of the line a.
CalculateTwoElectronSubFirstLineEnergy(k, sa, sb, sc, sd) ==
    LET Ea == ValenceEnergies[Kappa(sa)]
        alphas == OrbitalSeq(high)
        Line(match, R1, me, Eline, salpha) ==
            IF match
            THEN Result(RDiv(RMul(R1, me), RAdd(RSub(Eline, Energy(salpha)), delta)), 0, 0, 1, 1)
            ELSE Result(RZero, 0, 0, 0, 0)
        Term(salpha) ==
            IF InQSpace(salpha)
            THEN LET lines == <<
                        Line(Kappa(sa) = Kappa(salpha),
                             GetTwoElectronIntegral(k, salpha, sb, sc, sd),
                             GetMatrixElement(sa, salpha), Ea, salpha),
                        Line(Kappa(sc) = Kappa(salpha),
                             GetTwoElectronIntegral(k, sa, sb, salpha, sd),
                             GetMatrixElement(salpha, sc), Ea, salpha),
                        Line(Kappa(sb) = Kappa(salpha),
                             GetTwoElectronIntegral(k, sa, salpha, sc, sd),
                             GetMatrixElement(sb, salpha), Ea, salpha),
                        Line(Kappa(sd) = Kappa(salpha),
                             GetTwoElectronIntegral(k, sa, sb, sc, salpha),
                             GetMatrixElement(salpha, sd), Ea, salpha) >>
                     sum == SumResults(lines, 4)
                 IN  [sum EXCEPT !.visited = 1]
            ELSE Result(RZero, 1, 0, 0, 0)
        sum == SumResults([i \in 1 .. Len(alphas) |-> Term(alphas[i])], Len(alphas))
    IN  [sum EXCEPT !.ve = 4]

CalculateTwoElectronSub(k, sa, sb, sc, sd) ==
    LET Ea == ValenceEnergies[Kappa(sa)]
        Eb == ValenceEnergies[Kappa(sb)]
        Ec == ValenceEnergies[Kappa(sc)]
        Ed == ValenceEnergies[Kappa(sd)]
        alphas == OrbitalSeq(high)
        Line(match, R1, me, Eline, salpha) ==
            IF match
            THEN Result(RDiv(RMul(R1, me), RAdd(RSub(Eline, Energy(salpha)), delta)), 0, 0, 1, 1)
            ELSE Result(RZero, 0, 0, 0, 0)
        Term(salpha) ==
            IF InQSpace(salpha)
            THEN LET lines == <<
                        Line(Kappa(sa) = Kappa(salpha),
                             GetTwoElectronIntegral(k, salpha, sb, sc, sd),
                             GetMatrixElement(sa, salpha), Ea, salpha),
                        Line(Kappa(sc) = Kappa(salpha),
                             GetTwoElectronIntegral(k, sa, sb, salpha, sd),
                             GetMatrixElement(salpha, sc), Ec, salpha),
                        Line(Kappa(sb) = Kappa(salpha),
                             GetTwoElectronIntegral(k, sa, salpha, sc, sd),
                             GetMatrixElement(sb, salpha), Eb, salpha),
                        Line(Kappa(sd) = Kappa(salpha),
                             GetTwoElectronIntegral(k, sa, sb, sc, salpha),
                             GetMatrixElement(salpha, sd), Ed, salpha) >>
                     sum == SumResults(lines, 4)
                 IN  [sum EXCEPT !.visited = 1]
            ELSE Result(RZero, 1, 0, 0, 0)
        sum == SumResults([i \in 1 .. Len(alphas) |-> Term(alphas[i])], Len(alphas))
    IN  [sum EXCEPT !.ve = 4]

GetOneElectronSubtraction(s1, s2) ==
    IF Kappa(s1) # Kappa(s2)
    THEN Result(RZero, 0, 0, 0, 0)
    ELSE CalculateOneElectronSub(s1, s2)

\* ValenceMBPTCalculator::GetTwoElectronValence(k, s1, s2, s3, s4)
MBPTGetTwoElectronValence(k, s1, s2, s3, s4) == CalculateTwoElectronValence(k, s1, s2, s3, s4)

GetTwoElectronSubtraction(k, s1, s2, s3, s4) == CalculateTwoElectronSub(k, s1, s2, s3, s4)

MBPTGetTwoElectronBoxValence(k, s1, s2, s3, s4) == CalculateTwoElectronValence(k, s1, s2, s3, s4)

----------------------------------------------------------------------------
(* ValenceCalculator: the same sums, integrating on the fly.               *)

MAX_K == 12

\* A faulty sum: the kappa of the intermediate orbital is not tested.
CalculateOneElectronValence1AnyKappa(si, sf) ==
    LET ValenceEnergy == ValenceEnergies[Kappa(si)]
        s4s == OrbitalSeq(excited)
        Term(s4) ==
            IF PQN(s4) >= QSpaceCutoff
            THEN LET term == RMul(HamiltonianMatrixElement(s4, si),
                                  HamiltonianMatrixElement(s4, sf))
                 IN  Result(RDiv(term, RAdd(RSub(ValenceEnergy, Energy(s4)), delta)),
                            1, 0, 2, 0)
            ELSE Result(RZero, 1, 0, 0, 0)
        sum == SumResults([i \in 1 .. Len(s4s) |-> Term(s4s[i])], Len(s4s))
    IN  [sum EXCEPT !.ve = 1]

CalculateOneElectronValence1(si, sf) ==
    LET ValenceEnergy == ValenceEnergies[Kappa(si)]
        s4s == OrbitalSeq(excited)
        Term(s4) ==
            IF PQN(s4) >= QSpaceCutoff /\ Kappa(s4) = Kappa(si)
            THEN LET term == RMul(HamiltonianMatrixElement(s4, si),
                                  HamiltonianMatrixElement(s4, sf))
                 IN  Result(RDiv(term, RAdd(RSub(ValenceEnergy, Energy(s4)), delta)),
                            1, 0, 2, 0)
            ELSE Result(RZero, 1, 0, 0, 0)
        sum == SumResults([i \in 1 .. Len(s4s) |-> Term(s4s[i])], Len(s4s))
    IN  [sum EXCEPT !.ve = 1]

\* A faulty cross term: the multipole is not looked at.
WithIsotopeShiftAnyMultipole(R, NuclearInverseMass, kk, sms1, sms2) ==
    IF NuclearInverseMass # 0
    THEN RSub(R, RMul(RInt(NuclearInverseMass), RMul(sms1, sms2)))
    ELSE R

\* A radial integral of multipole kk with its isotope-shift cross term.
WithIsotopeShift(R, NuclearInverseMass, kk, sms1, sms2) ==
    IF NuclearInverseMass # 0 /\ kk = 1
    THEN RSub(R, RMul(RInt(NuclearInverseMass), RMul(sms1, sms2)))
    ELSE R

\* The k2 loop of CalculateTwoElectronValence1 for one k1.
Box1InnerSum(k, k1, R1, coeff_ab, coeff_34, sa, sb, sc, sd, s3, s4, NuclearInverseMass) ==
    LET k2s == KLoop((L(s3) + L(sc)) % 2, MAX_K)
        Term(k2) ==
            LET c3j == RMul(Electron3j(TwoJ(s3), TwoJ(sc), k2),
                            Electron3j(TwoJ(s4), TwoJ(sd), k2))
                c6j == IF RIsZero(c3j) THEN c3j
                       ELSE RMul(c3j,
                              RMul(Wigner6j(TwoJ(sc), TwoJ(sa), 2 * k, 2 * k1, 2 * k2, TwoJ(s3)),
                                   Wigner6j(TwoJ(sd), TwoJ(sb), 2 * k, 2 * k1, 2 * k2, TwoJ(s4))))
            IN  IF RIsZero(c6j) THEN Result(RZero, 0, 0, 0, 0)
                ELSE LET c == RMul(RMul(c6j, coeff_ab), coeff_34)
                         coeff == IF (k1 + k2) % 2 # 0 THEN RNeg(c) ELSE c
                         R2 == WithIsotopeShift(RadialIntegral(k2, s3, s4, sc, sd),
                                                NuclearInverseMass, k2,
                                                IsotopeShiftIntegral(s3, sc),
                                                IsotopeShiftIntegral(s4, sd))
                     IN  Result(RMul(RMul(R1, R2), coeff), 0, 0, 0, 1)
    IN  SumResults([i \in 1 .. Len(k2s) |-> Term(k2s[i])], Len(k2s))

\* The body of CalculateTwoElectronValence1 for one pair (s3, s4).
Box1PairSum(k, sa, sb, sc, sd, s3, s4, coeff_ac, coeff_bd, ValenceEnergy, NuclearInverseMass) ==
    LET weight == RInt((TwoJ(s3) + 1) * (TwoJ(s4) + 1) * (2 * k + 1))
        parity == /\ (L(sa) + L(s3)) % 2 = (L(sb) + L(s4)) % 2
                  /\ (L(s3) + L(sc)) % 2 = (L(sd) + L(s4)) % 2
    IN  IF (PQN(s3) >= QSpaceCutoff \/ PQN(s4) >= QSpaceCutoff) /\ parity
        THEN LET denom == RAdd(RSub(RSub(ValenceEnergy, Energy(s3)), Energy(s4)), delta)
                 exponent == (TwoJ(sa) + TwoJ(sb) + TwoJ(sc) + TwoJ(sd)
                              + TwoJ(s3) + TwoJ(s4)) \div 2
                 unsigned == RDiv(RDiv(weight, RMul(coeff_ac, coeff_bd)), denom)
                 coeff_34 == IF (exponent + k + 1) % 2 # 0 THEN RNeg(unsigned) ELSE unsigned
                 k1s == KLoop((L(sa) + L(s3)) % 2, MAX_K)
                 Term(k1) ==
                     LET coeff_ab == RMul(Electron3j(TwoJ(sa), TwoJ(s3), k1),
                                          Electron3j(TwoJ(sb), TwoJ(s4), k1))
                     IN  IF RIsZero(coeff_ab) THEN Result(RZero, 0, 0, 0, 0)
                         ELSE LET R1 == WithIsotopeShift(RadialIntegral(k1, sa, sb, s3, s4),
                                                         NuclearInverseMass, k1,
                                                         IsotopeShiftIntegral(s3, sa),
                                                         IsotopeShiftIntegral(s4, sb))
                                  inner == Box1InnerSum(k, k1, R1, coeff_ab, coeff_34,
                                                        sa, sb, sc, sd, s3, s4,
                                                        NuclearInverseMass)
                              IN  [inner EXCEPT !.ri = @ + 1]
                 sum == SumResults([i \in 1 .. Len(k1s) |-> Term(k1s[i])], Len(k1s))
             IN  [sum EXCEPT !.visited = 1]
        ELSE Result(RZero, 1, 0, 0, 0)

CalculateTwoElectronValence1(sa, sb, sc, sd, k, NuclearInverseMass) ==
    LET coeff_ac == Electron3j(TwoJ(sa), TwoJ(sc), k)
        coeff_bd == Electron3j(TwoJ(sb), TwoJ(sd), k)
    IN  IF RIsZero(coeff_ac) \/ RIsZero(coeff_bd)
        THEN Result(RZero, 0, 0, 0, 0)
        ELSE LET ValenceEnergy == RAdd(ValenceEnergies[Kappa(sa)], ValenceEnergies[Kappa(sb)])
                 es == OrbitalSeq(excited)
                 n == Len(es)
                 Inner(s3) ==
                     SumResults([j \in 1 .. n |->
                                    Box1PairSum(k, sa, sb, sc, sd, s3, es[j], coeff_ac,
                                                coeff_bd, ValenceEnergy, NuclearInverseMass)], n)
                 sum == SumResults([i \in 1 .. n |-> Inner(es[i])], n)
             IN  [sum EXCEPT !.ve = 2]

\* One hole-line term of CalculateTwoElectronValence2: the line `ext' of
\* kappa-matching s3 replaced, R the radial integral with s3 in its place,
\* sms the signed isotope-shift term added to R.
Sub2Line(ext, s3, R, sms) ==
    IF PQN(s3) >= QSpaceCutoff /\ Kappa(s3) = Kappa(ext)
    THEN Result(RDiv(RMul(RAdd(R, sms), HamiltonianMatrixElement(ext, s3)),
                     RAdd(RSub(ValenceEnergies[Kappa(ext)], Energy(s3)), delta)),
                0, 1, 1, 1)
    ELSE Result(RZero, 0, 0, 0, 0)

CalculateTwoElectronValence2(sa, sb, sc, sd, k, NuclearInverseMass) ==
    LET SMS_bd == IF NuclearInverseMass # 0 /\ k = 1
                  THEN RMul(RInt(NuclearInverseMass), IsotopeShiftIntegral(sb, sd))
                  ELSE RZero
        SMS_ac == IF NuclearInverseMass # 0 /\ k = 1
                  THEN RMul(RInt(NuclearInverseMass), IsotopeShiftIntegral(sa, sc))
                  ELSE RZero
        s3s == OrbitalSeq(excited)
        n == Len(s3s)
        \* Hole line attached to sa or sc.
        First(s3) ==
            LET lines == <<
                    Sub2Line(sa, s3, RadialIntegral(k, s3, sb, sc, sd),
                             RNeg(RMul(SMS_bd, IsotopeShiftIntegral(s3, sc)))),
                    Sub2Line(sc, s3, RadialIntegral(k, sa, sb, s3, sd),
                             RMul(SMS_bd, IsotopeShiftIntegral(s3, sa))) >>
            IN  [SumResults(lines, 2) EXCEPT !.visited = 1]
        \* Hole line attached to sb or sd.
        Second(s3) ==
            LET lines == <<
                    Sub2Line(sb, s3, RadialIntegral(k, sa, s3, sc, sd),
                             RNeg(RMul(SMS_ac, IsotopeShiftIntegral(s3, sd)))),
                    Sub2Line(sd, s3, RadialIntegral(k, sa, sb, sc, s3),
                             RMul(SMS_ac, IsotopeShiftIntegral(s3, sb))) >>
            IN  [SumResults(lines, 2) EXCEPT !.visited = 1]
        both == <<SumResults([i \in 1 .. n |-> First(s3s[i])], n),
                  SumResults([i \in 1 .. n |-> Second(s3s[i])], n)>>
    IN  SumResults(both, 2)

\* A faulty GetOneElectronValence: it lacks the kappa test.
GetOneElectronValenceUnchecked(s1, s2) ==
    IF Kappa(s1) \in DOMAIN ValenceEnergies
    THEN CalculateOneElectronValence1(s1, s2)
    ELSE Result(RZero, 0, 0, 0, 0)

\* ValenceCalculator::GetOneElectronValence(s1, s2)
GetOneElectronValence(s1, s2) ==
    IF Kappa(s1) # Kappa(s2)
    THEN Result(RZero, 0, 0, 0, 0)
    ELSE CalculateOneElectronValence1(s1, s2)

GetTwoElectronValence(s1, s2, s3, s4, k, NuclearInverseMass) ==
    LET terms == <<CalculateTwoElectronValence1(s1, s2, s3, s4, k, NuclearInverseMass),
                   CalculateTwoElectronValence2(s1, s2, s3, s4, k, NuclearInverseMass)>>
    IN  SumResults(terms, 2)

GetTwoElectronBoxValence(s1, s2, s3, s4, k, NuclearInverseMass) ==
    CalculateTwoElectronValence1(s1, s2, s3, s4, k, NuclearInverseMass)

----------------------------------------------------------------------------
(* The integral stores: bulk update, size estimate, clear.                 *)

\* The multipoles for which two-electron integrals are stored: up to the
\* largest L sum of two orbitals and the largest external multipole.
MaxStoredMultipole ==
    LET m == CHOOSE x \in {2 * L(s) : s \in AllOrbitals} :
                 \A y \in {2 * L(s) : s \in AllOrbitals} : y <= x
    IN  IF m > MaxMultipole THEN m ELSE MaxMultipole

KappaOfRank(r) == IF r % 2 = 0 THEN -((r \div 2) + 1) ELSE (r + 1) \div 2

\* The orbital of a state index (the reverse state index).
ReverseStateIndex(i) ==
    IF i < Cardinality(core)
    THEN OrbitalSeq(core)[i + 1]
    ELSE LET e == i - Cardinality(core)
         IN  OrbitalInfo(MinPQN + (e \div Cardinality(Kappas)),
                         KappaOfRank(e % Cardinality(Kappas)))

\* The value of the one-electron integral stored under a key.
OneElectronValue(key) ==
    HamiltonianMatrixElement(ReverseStateIndex(key \div NumStates),
                             ReverseStateIndex(key % NumStates))

\* The value of the two-electron integral stored under a key.
TwoElectronValue(key) ==
    LET i4 == key % NumStates
        i3 == (key \div NumStates) % NumStates
        i2 == (key \div (NumStates * NumStates)) % NumStates
        i1 == (key \div (NumStates * NumStates * NumStates)) % NumStates
        k == key \div (NumStates * NumStates * NumStates * NumStates)
    IN  RadialIntegral(k, ReverseStateIndex(i1), ReverseStateIndex(i2),
                       ReverseStateIndex(i3), ReverseStateIndex(i4))

\* The keys of the one-electron integrals between two orbital maps.
OneElectronKeys(map1, map2) ==
    {OneElectronKey(p[1], p[2]) : p \in {q \in map1 \X map2 : Kappa(q[1]) = Kappa(q[2])}}

\* The keys of the two-electron integrals R_k(s1 s2, s3 s4) over four orbital maps.
TwoElectronKeys(map1, map2, map3, map4) ==
    {TwoElectronKey(q[1], q[2], q[3], q[4], q[5]) :
        q \in (0 .. MaxStoredMultipole) \X map1 \X map2 \X map3 \X map4}

\* A store extended by freshly calculated entries; entries it holds are kept.
Extend(store, fresh) ==
    [key \in (DOMAIN store) \cup (DOMAIN fresh) |->
        IF key \in DOMAIN store THEN store[key] ELSE fresh[key]]

\* The integrals of the keys that the store lacks, each calculated by the
\* value function of its store.
FreshOneElectron(store, keys) == [key \in keys \ DOMAIN store |-> OneElectronValue(key)]
FreshTwoElectron(store, keys) == [key \in keys \ DOMAIN store |-> TwoElectronValue(key)]

EmptyStore == [key \in {} |-> RZero]

\* A faulty update of the one-electron store: it keeps only the integrals
\* it has just calculated.
CalculateOneElectronIntegralsAnew(store, map1, map2, check_size_only) ==
    IF check_size_only
    THEN [store |-> store, size |-> Cardinality(OneElectronKeys(map1, map2))]
    ELSE LET new == [key \in OneElectronKeys(map1, map2) \ DOMAIN store |->
                        OneElectronValue(key)]
         IN  [store |-> new, size |-> Cardinality(DOMAIN new)]

\* HFIntegrals::CalculateOneElectronIntegrals(map1, map2, check_size_only):
\* the store afterwards and the number returned.
CalculateOneElectronIntegrals(store, map1, map2, check_size_only) ==
    IF check_size_only
    THEN [store |-> store, size |-> Cardinality(OneElectronKeys(map1, map2))]
    ELSE LET new == Extend(store, FreshOneElectron(store, OneElectronKeys(map1, map2)))
         IN  [store |-> new, size |-> Cardinality(DOMAIN new)]

\* SlaterIntegrals::CalculateTwoElectronIntegrals(map1, ..., map4, check_size_only)
CalculateTwoElectronIntegrals(store, map1, map2, map3, map4, check_size_only) ==
    IF check_size_only
    THEN [store |-> store, size |-> Cardinality(TwoElectronKeys(map1, map2, map3, map4))]
    ELSE LET new == Extend(store, FreshTwoElectron(store, TwoElectronKeys(map1, map2, map3, map4)))
         IN  [store |-> new, size |-> Cardinality(DOMAIN new)]

\* MBPTCalculator::SetValenceEnergies: for each kappa of the valence
\* orbitals, the energy of the lowest valence orbital of that kappa.
SetValenceEnergies ==
    [kap \in {Kappa(s) : s \in valence} |->
        LET same == {s \in valence : Kappa(s) = kap}
            low == CHOOSE s \in same : \A t \in same : s.pqn <= t.pqn
        IN  Energy(low)]

NoValenceEnergies == [kap \in {} |-> RZero]

----------------------------------------------------------------------------
(* Operations on the orbital maps and on the stores of                     *)
(* ValenceMBPTCalculator.  cacheOp records the operation, what it returned *)
(* and the number of stored integrals before it.                           *)

Idle == [op |-> "idle"]

StoredIntegrals == Cardinality(DOMAIN one_body) + Cardinality(DOMAIN two_body)

CacheOp(op, ret, before) == [op |-> op, ret |-> ret, before |-> before]

\* The orbital manager adds the next shell to the excited orbitals; its
\* orbitals in Q-space join the high orbitals.
GrowExcited ==
    /\ call = Idle
    /\ \E n \in PQNs :
          /\ Shell(n) \cap excited = {}
          /\ Shell(n - 1) \subseteq excited
          /\ excited' = excited \cup Shell(n)
          /\ high' = high \cup {s \in Shell(n) : InQSpace(s)}
    /\ cacheOp' = CacheOp("GrowExcited", 0, StoredIntegrals)
    /\ UNCHANGED <<ValenceEnergies, MaxStateSize, one_body, two_body, slaterVars,
                   call, bruecknerVars>>

\* A faulty GetStorageSize: it forgets check_size_only.
GetStorageSizeStoring ==
    LET two == CalculateTwoElectronIntegrals(two_body, valence, valence, excited, high, FALSE)
        one == CalculateOneElectronIntegrals(one_body, valence, high, FALSE)
    IN  /\ call = Idle
        /\ two_body' = two.store
        /\ one_body' = one.store
        /\ cacheOp' = CacheOp("GetStorageSize", two.size + one.size, StoredIntegrals)
        /\ UNCHANGED <<excited, high, ValenceEnergies, MaxStateSize, slaterVars,
                       call, bruecknerVars>>

\* ValenceMBPTCalculator::GetStorageSize
GetStorageSize ==
    LET two == CalculateTwoElectronIntegrals(two_body, valence, valence, excited, high, TRUE)
        one == CalculateOneElectronIntegrals(one_body, valence, high, TRUE)
    IN  /\ call = Idle
        /\ two_body' = two.store
        /\ one_body' = one.store
        /\ cacheOp' = CacheOp("GetStorageSize", two.size + one.size, StoredIntegrals)
        /\ UNCHANGED <<excited, high, ValenceEnergies, MaxStateSize, slaterVars,
                       call, bruecknerVars>>

\* A faulty UpdateIntegrals: it forgets the two-electron integrals.
UpdateIntegralsOneBodyOnly ==
    LET one == CalculateOneElectronIntegrals(one_body, valence, high, FALSE)
    IN  /\ call = Idle
        /\ ValenceEnergies' = SetValenceEnergies
        /\ one_body' = one.store
        /\ cacheOp' = CacheOp("UpdateIntegrals", 0, StoredIntegrals)
        /\ UNCHANGED <<excited, high, MaxStateSize, two_body, slaterVars, call,
                       bruecknerVars>>

\* ValenceMBPTCalculator::UpdateIntegrals
UpdateIntegrals ==
    LET one == CalculateOneElectronIntegrals(one_body, valence, high, FALSE)
        two == CalculateTwoElectronIntegrals(two_body, valence, valence, excited, high, FALSE)
    IN  /\ call = Idle
        /\ ValenceEnergies' = SetValenceEnergies
        /\ one_body' = one.store
        /\ two_body' = two.store
        /\ cacheOp' = CacheOp("UpdateIntegrals", 0, StoredIntegrals)
        /\ UNCHANGED <<excited, high, MaxStateSize, slaterVars, call, bruecknerVars>>

\* A faulty destructor: it clears the one-body store alone.
DestructorOneBodyOnly ==
    /\ call = Idle
    /\ one_body' = EmptyStore
    /\ ValenceEnergies' = NoValenceEnergies
    /\ cacheOp' = CacheOp("Destructor", 0, StoredIntegrals)
    /\ UNCHANGED <<excited, high, MaxStateSize, two_body, slaterVars, call,
                   bruecknerVars>>

\* ValenceMBPTCalculator::~ValenceMBPTCalculator, followed by the
\* construction of a new calculator over the same orbitals and stores.
Destructor ==
    /\ call = Idle
    /\ one_body' = EmptyStore
    /\ two_body' = EmptyStore
    /\ ValenceEnergies' = NoValenceEnergies
    /\ cacheOp' = CacheOp("Destructor", 0, StoredIntegrals)
    /\ UNCHANGED <<excited, high, MaxStateSize, slaterVars, call, bruecknerVars>>

----------------------------------------------------------------------------
(* Evaluations of the perturbation engine.  An evaluation runs to          *)
(* completion; call holds its arguments and its result until the caller    *)
(* has taken it (Return).                                                  *)

Multipoles == 0 .. MaxMultipole

\* core->GetNuclearInverseMass(): zero, or an isotope shift switched on.
NuclearInverseMasses == {0, 1}

\* core->GetConstHFPotential().size()
HFPotentialSize == MaxSize

\* PRE of the sums: ValenceEnergies holds the kappa of every external line
\* (the sums dereference ValenceEnergies.find(kappa) unconditionally).
ValenceEnergiesSet == \A s \in valence : Kappa(s) \in DOMAIN ValenceEnergies

\* UpdateIntegrals has run for the current orbital maps, so every integral
\* the sums over the stores fetch is stored.  The sums do not ask for it.
IntegralsStored ==
    /\ ValenceEnergiesSet
    /\ OneElectronKeys(valence, high) \subseteq DOMAIN one_body
    /\ TwoElectronKeys(valence, valence, excited, high) \subseteq DOMAIN two_body

OuterCoefficientZero(s1, s2, s3, s4, k) ==
    \/ RIsZero(Electron3j(TwoJ(s1), TwoJ(s3), k))
    \/ RIsZero(Electron3j(TwoJ(s2), TwoJ(s4), k))

Call(op, ext, k, nim, result) ==
    [op |-> op, ext |-> ext, k |-> k, nim |-> nim, result |-> result]

unchangedByCall == <<excited, high, ValenceEnergies, one_body, two_body, slaterVars,
                     cacheOp, bruecknerVars>>

\* ValenceCalculator::GetOneElectronValence(s1, s2)
CallGetOneElectronValence ==
    /\ call = Idle
    /\ \E s1 \in valence, s2 \in valence :
          /\ Kappa(s1) = Kappa(s2) => ValenceEnergiesSet
          /\ call' = Call("GetOneElectronValence", <<s1, s2>>, 0, 0,
                          GetOneElectronValence(s1, s2))
    /\ MaxStateSize' = HFPotentialSize
    /\ UNCHANGED unchangedByCall

\* ValenceCalculator::GetTwoElectronValence(s1, s2, s3, s4, k)
CallGetTwoElectronValence ==
    /\ call = Idle
    /\ ValenceEnergiesSet
    /\ \E s1 \in valence, s2 \in valence, s3 \in valence, s4 \in valence,
          k \in Multipoles, nim \in NuclearInverseMasses :
          call' = Call("GetTwoElectronValence", <<s1, s2, s3, s4>>, k, nim,
                       GetTwoElectronValence(s1, s2, s3, s4, k, nim))
    /\ MaxStateSize' = HFPotentialSize
    /\ UNCHANGED unchangedByCall

\* ValenceCalculator::GetTwoElectronBoxValence(s1, s2, s3, s4, k)
CallGetTwoElectronBoxValence ==
    /\ call = Idle
    /\ \E s1 \in valence, s2 \in valence, s3 \in valence, s4 \in valence,
          k \in Multipoles, nim \in NuclearInverseMasses :
          /\ OuterCoefficientZero(s1, s2, s3, s4, k) \/ ValenceEnergiesSet
          /\ call' = Call("GetTwoElectronBoxValence", <<s1, s2, s3, s4>>, k, nim,
                          GetTwoElectronBoxValence(s1, s2, s3, s4, k, nim))
    /\ MaxStateSize' = HFPotentialSize
    /\ UNCHANGED unchangedByCall

\* ValenceMBPTCalculator::GetOneElectronSubtraction(s1, s2)
CallGetOneElectronSubtraction ==
    /\ call = Idle
    /\ \E s1 \in valence, s2 \in valence :
          /\ Kappa(s1) = Kappa(s2) => ValenceEnergiesSet
          /\ call' = Call("GetOneElectronSubtraction", <<s1, s2>>, 0, 0,
                          GetOneElectronSubtraction(s1, s2))
    /\ UNCHANGED <<MaxStateSize, unchangedByCall>>

\* ValenceMBPTCalculator::GetTwoElectronValence(k, s1, s2, s3, s4)
CallMBPTGetTwoElectronValence ==
    /\ call = Idle
    /\ \E s1 \in valence, s2 \in valence, s3 \in valence, s4 \in valence,
          k \in Multipoles :
          /\ OuterCoefficientZero(s1, s2, s3, s4, k) \/ ValenceEnergiesSet
          /\ call' = Call("MBPTGetTwoElectronValence", <<s1, s2, s3, s4>>, k, 0,
                          MBPTGetTwoElectronValence(k, s1, s2, s3, s4))
    /\ UNCHANGED <<MaxStateSize, unchangedByCall>>

\* ValenceMBPTCalculator::GetTwoElectronBoxValence(k, s1, s2, s3, s4)
CallMBPTGetTwoElectronBoxValence ==
    /\ call = Idle
    /\ \E s1 \in valence, s2 \in valence, s3 \in valence, s4 \in valence,
          k \in Multipoles :
          /\ OuterCoefficientZero(s1, s2, s3, s4, k) \/ ValenceEnergiesSet
          /\ call' = Call("MBPTGetTwoElectronBoxValence", <<s1, s2, s3, s4>>, k, 0,
                          MBPTGetTwoElectronBoxValence(k, s1, s2, s3, s4))
    /\ UNCHANGED <<MaxStateSize, unchangedByCall>>

\* ValenceMBPTCalculator::GetTwoElectronSubtraction(k, s1, s2, s3, s4)
CallGetTwoElectronSubtraction ==
    /\ call = Idle
    /\ ValenceEnergiesSet
    /\ \E s1 \in valence, s2 \in valence, s3 \in valence, s4 \in valence,
          k \in Multipoles :
          call' = Call("GetTwoElectronSubtraction", <<s1, s2, s3, s4>>, k, 0,
                       GetTwoElectronSubtraction(k, s1, s2, s3, s4))
    /\ UNCHANGED <<MaxStateSize, unchangedByCall>>

\* The caller takes the result.
Return ==
    /\ call # Idle
    /\ call' = Idle
    /\ UNCHANGED <<MaxStateSize, unchangedByCall>>

----------------------------------------------------------------------------
(* SlaterIntegrals: the class that holds the one-electron, SMS and         *)
(* two-electron integrals of the valence lines against the excited states. *)

\* The keys of the SMS integrals <i|p|j> between two orbital maps: p joins
\* orbitals whose L differ by one.
SMSKeys(map1, map2) ==
    {OneElectronKey(p[1], p[2]) : p \in {q \in map1 \X map2 : Abs(L(q[1]) - L(q[2])) = 1}}

\* The value of the SMS integral stored under a key.
SMSValue(key) ==
    IsotopeShiftIntegral(ReverseStateIndex(key \div NumStates),
                         ReverseStateIndex(key % NumStates))

\* The value of the two-electron integral stored under a key, with the
\* scaled specific mass shift folded in when include_valence_sms is set.
SlaterTwoElectronValue(key) ==
    LET i3 == (key \div NumStates) % NumStates
        i1 == (key \div (NumStates * NumStates * NumStates)) % NumStates
        k == key \div (NumStates * NumStates * NumStates * NumStates)
    IN  IF include_valence_sms /\ k = 1
        THEN RSub(TwoElectronValue(key),
                  IsotopeShiftIntegral(ReverseStateIndex(i1), ReverseStateIndex(i3)))
        ELSE TwoElectronValue(key)

\* The keys Update stores for the current orbital maps.
SlaterOneElectronKeys == OneElectronKeys(valence, excited)
SlaterSMSKeys == SMSKeys(valence, excited)
SlaterTwoElectronKeys == TwoElectronKeys(valence, valence, valence, excited)

SlaterStored ==
    Cardinality(DOMAIN OneElectronIntegrals) + Cardinality(DOMAIN SMSIntegrals)
        + Cardinality(DOMAIN TwoElectronIntegrals)

\* A faulty index: the core and the excited orbitals numbered together in
\* the order of their keys.
UpdateStateIndexesByOrbital ==
    [s \in core \cup excited |->
        Cardinality({x \in core \cup excited : OrbitalLess(x, s)})]

\* SlaterIntegrals::UpdateStateIndexes(valence)
UpdateStateIndexes == [s \in core \cup excited |-> StateIndex(s)]

\* SlaterIntegrals::GetStorageSize(valence)
SlaterGetStorageSize ==
    /\ call = Idle
    /\ cacheOp' = CacheOp("SlaterGetStorageSize",
                          Cardinality(SlaterOneElectronKeys) + Cardinality(SlaterSMSKeys)
                              + Cardinality(SlaterTwoElectronKeys),
                          SlaterStored)
    /\ UNCHANGED <<engineVars, slaterVars, call, bruecknerVars>>

\* SlaterIntegrals::Update(valence)
Update ==
    /\ call = Idle
    /\ state_index' = UpdateStateIndexes
    /\ OneElectronIntegrals' =
          Extend(OneElectronIntegrals,
                 FreshOneElectron(OneElectronIntegrals, SlaterOneElectronKeys))
    /\ SMSIntegrals' = Extend(SMSIntegrals,
                 [key \in SlaterSMSKeys \ DOMAIN SMSIntegrals |-> SMSValue(key)])
    /\ TwoElectronIntegrals' =
          Extend(TwoElectronIntegrals,
                 [key \in SlaterTwoElectronKeys \ DOMAIN TwoElectronIntegrals |->
                     SlaterTwoElectronValue(key)])
    /\ cacheOp' = CacheOp("Update", 0, SlaterStored)
    /\ UNCHANGED <<engineVars, include_valence_sms, call, bruecknerVars>>

\* SlaterIntegrals::Clear()
Clear ==
    /\ call = Idle
    /\ state_index' = [s \in {} |-> 0]
    /\ OneElectronIntegrals' = EmptyStore
    /\ SMSIntegrals' = EmptyStore
    /\ TwoElectronIntegrals' = EmptyStore
    /\ cacheOp' = CacheOp("Clear", 0, SlaterStored)
    /\ UNCHANGED <<engineVars, include_valence_sms, call, bruecknerVars>>

\* SlaterIntegrals::IncludeValenceSMS(include)
IncludeValenceSMS ==
    /\ call = Idle
    /\ \E include \in BOOLEAN : include_valence_sms' = include
    /\ cacheOp' = CacheOp("IncludeValenceSMS", 0, SlaterStored)
    /\ UNCHANGED <<engineVars, state_index, OneElectronIntegrals, SMSIntegrals,
                   TwoElectronIntegrals, call, bruecknerVars>>

\* What a lookup hands back: the stored value, or nothing for a key that
\* no update has stored.
Lookup(store, key) == IF key \in DOMAIN store THEN <<store[key]>> ELSE <<>>

\* The orbitals looked up: the valence lines and one orbital of the top shell.
Probes == valence \cup {OrbitalInfo(MinPQN + PQNSpan, -1)}

unchangedByLookup == <<engineVars, slaterVars, cacheOp, bruecknerVars>>

\* SlaterIntegrals::GetOneElectronIntegral(s1, s2) const
GetOneElectronIntegral ==
    /\ call = Idle
    /\ \E s1 \in valence, s2 \in Probes :
          call' = Call("GetOneElectronIntegral", <<s1, s2>>, 0, 0,
                       Lookup(OneElectronIntegrals, OneElectronKey(s1, s2)))
    /\ UNCHANGED unchangedByLookup

\* SlaterIntegrals::GetSMSIntegral(s1, s2) const
GetSMSIntegral ==
    /\ call = Idle
    /\ \E s1 \in valence, s2 \in Probes :
          call' = Call("GetSMSIntegral", <<s1, s2>>, 0, 0,
                       Lookup(SMSIntegrals, OneElectronKey(s1, s2)))
    /\ UNCHANGED unchangedByLookup

\* SlaterIntegrals::GetTwoElectronIntegral(k, s1, s2, s3, s4) const
SlaterGetTwoElectronIntegral ==
    /\ call = Idle
    /\ \E k \in Multipoles, s1 \in valence, s2 \in valence, s4 \in Probes :
          call' = Call("SlaterGetTwoElectronIntegral", <<s1, s2, s1, s4>>, k, 0,
                       Lookup(TwoElectronIntegrals, TwoElectronKey(k, s1, s2, s1, s4)))
    /\ UNCHANGED unchangedByLookup

\* The orbitals a caller may name in either position of a lookup: the
\* valence lines, the 5s orbital and the probe of the top shell.
LookupOrbitals == Probes \cup {OrbitalInfo(MinPQN + 1, -1)}

\* SlaterIntegrals::GetOneElectronIntegral(s1, s2) const, asked by callers
\* that name the two orbitals in either order.
GetOneElectronIntegralEitherOrder ==
    /\ call = Idle
    /\ \E s1 \in LookupOrbitals, s2 \in LookupOrbitals :
          call' = Call("GetOneElectronIntegral", <<s1, s2>>, 0, 0,
                       Lookup(OneElectronIntegrals, OneElectronKey(s1, s2)))
    /\ UNCHANGED unchangedByLookup

\* SlaterIntegrals::GetTwoElectronIntegral(k, s1, s2, s3, s4) const, asked
\* by callers that name the four orbitals in any order.
GetTwoElectronIntegralAnyOrdering ==
    /\ call = Idle
    /\ \E k \in Multipoles, s1 \in LookupOrbitals, s2 \in LookupOrbitals,
          s3 \in LookupOrbitals, s4 \in LookupOrbitals :
          call' = Call("SlaterGetTwoElectronIntegral", <<s1, s2, s3, s4>>, k, 0,
                       Lookup(TwoElectronIntegrals, TwoElectronKey(k, s1, s2, s3, s4)))
    /\ UNCHANGED unchangedByLookup

----------------------------------------------------------------------------
(* SpinorFunction: kappa and the radial arrays f, g, dfdr, dgdr, all of    *)
(* one size.  Lattice points count from 0; the arrays are 1-based here.    *)

Zeros(n) == [i \in 1 .. n |-> RZero]

SpinorFunction(kappa, f, g) ==
    [kappa |-> kappa, f |-> f, g |-> g, dfdr |-> Zeros(Len(f)), dgdr |-> Zeros(Len(f))]

\* SpinorFunction::size()
Size(s) == Len(s.f)

\* An array cut or zero-padded to n points (std::vector::resize).
ResizeArray(a, n) == [i \in 1 .. n |-> IF i <= Len(a) THEN a[i] ELSE RZero]

\* SpinorFunction::resize(n)
Resize(s, n) ==
    [kappa |-> s.kappa, f |-> ResizeArray(s.f, n), g |-> ResizeArray(s.g, n),
     dfdr |-> ResizeArray(s.dfdr, n), dgdr |-> ResizeArray(s.dgdr, n)]

Larger(m, n) == IF m >= n THEN m ELSE n

\* SpinorFunction::operator+= and operator-=: pointwise on the arrays, the
\* left operand grown to the size of the right one if that is larger.
Combine(a, b, sign) ==
    LET n == Larger(Size(a), Size(b))
        x == Resize(a, n)
        y == Resize(b, n)
    IN  [kappa |-> a.kappa,
         f |-> [i \in 1 .. n |-> RAdd(x.f[i], RMul(RInt(sign), y.f[i]))],
         g |-> [i \in 1 .. n |-> RAdd(x.g[i], RMul(RInt(sign), y.g[i]))],
         dfdr |-> [i \in 1 .. n |-> RAdd(x.dfdr[i], RMul(RInt(sign), y.dfdr[i]))],
         dgdr |-> [i \in 1 .. n |-> RAdd(x.dgdr[i], RMul(RInt(sign), y.dgdr[i]))]]

SpinorPlus(a, b) == Combine(a, b, 1)
SpinorMinus(a, b) == Combine(a, b, -1)

\* SpinorFunction::operator*=(double)
SpinorTimes(s, c) ==
    [kappa |-> s.kappa,
     f |-> [i \in 1 .. Size(s) |-> RMul(s.f[i], c)],
     g |-> [i \in 1 .. Size(s) |-> RMul(s.g[i], c)],
     dfdr |-> [i \in 1 .. Size(s) |-> RMul(s.dfdr[i], c)],
     dgdr |-> [i \in 1 .. Size(s) |-> RMul(s.dgdr[i], c)]]

\* Interpolator::GetDerivative: the derivative of an array on the lattice,
\* here the forward difference, zero at the last point.
GetDerivative(a) ==
    [i \in 1 .. Len(a) |-> IF i < Len(a) THEN RSub(a[i + 1], a[i]) ELSE RZero]

\* The element of an array at a lattice point.  A read at or beyond the
\* size of the array is undefined; it yields whatever is in memory (junk).
At(a, latticepoint, junk) ==
    IF latticepoint < Len(a) THEN a[latticepoint + 1] ELSE junk

\* What an out-of-range read can find.
Junk == {RZero, RInt(1)}

----------------------------------------------------------------------------
(* SigmaPotential and the files identifier.kappa.sigma.                    *)

\* The channels for which sigma potentials are made.
SigmaKappas == {-1, 1}

\* A SigmaPotential object: its identity, its matrix size and its contents.
SigmaPotential(id, size, content) == [id |-> id, size |-> size, content |-> content]

\* BruecknerSigmaCalculator::GetSecondOrderSigma(kappa, sigma): the contents
\* computed for a channel from the operator the calculator was built on.
GetSecondOrderSigma(kappa, operator) ==
    RInt(KappaRank(kappa) + (IF operator = "bare_hf" THEN 3 ELSE 1))

\* itoa(kappa)
itoa(n) ==
    LET digit == <<"0", "1", "2", "3", "4", "5", "6", "7", "8", "9">>
    IN  IF n < 0 THEN "-" \o digit[1 - n] ELSE digit[1 + n]

\* identifier + "." + itoa(kappa) + ".sigma"
Filename(identifier, kappa) == identifier \o "." \o itoa(kappa) \o ".sigma"

Identifiers == {"Cs"}

NoFiles == [name \in {} |-> 0]

\* SigmaPotential::Read(filename) on a fresh SigmaPotential(): whether the
\* file could be loaded, and the object afterwards.
SigmaRead(filename, id) ==
    IF filename \in DOMAIN files
    THEN [ok |-> TRUE,
          sigma |-> SigmaPotential(id, files[filename].size, files[filename].content)]
    ELSE [ok |-> FALSE, sigma |-> SigmaPotential(id, 0, RZero)]

\* SigmaPotential::Write(filename): the files afterwards.
SigmaWrite(store, filename, sigma) ==
    [name \in (DOMAIN store) \cup {filename} |->
        IF name = filename THEN [size |-> sigma.size, content |-> sigma.content]
        ELSE store[name]]

\* SigmaPotential::ApplyTo(s, lattice): the matrix applied to a spinor; the
\* result has the size of s.
SigmaApplyTo(sigma, s) ==
    LET n == IF Size(s) < sigma.size THEN Size(s) ELSE sigma.size
        sumf == RSumSeq([i \in 1 .. n |-> s.f[i]])
        sumg == RSumSeq([i \in 1 .. n |-> s.g[i]])
    IN  SpinorFunction(s.kappa,
                       [i \in 1 .. Size(s) |-> IF i <= n THEN RMul(sigma.content, sumf) ELSE RZero],
                       [i \in 1 .. Size(s) |-> IF i <= n THEN RMul(sigma.content, sumg) ELSE RZero])

----------------------------------------------------------------------------
(* BruecknerDecorator.  An operation that changes the decorator or the     *)
(* files leaves in lastOp what it was called with; a const operation       *)
(* leaves its arguments and its result in call until the caller has taken  *)
(* them (Return).                                                          *)

\* physicalConstant->GetAlpha()
Alpha == Rat(1, 137)

\* The wavefunctions handed to the decorator.
Approximation(kappa, n) ==
    SpinorFunction(kappa, [i \in 1 .. n |-> RInt(i)], [i \in 1 .. n |-> RInt(1)])

\* One shorter than every sigma potential, one longer than the lattice.
Approximations == {Approximation(-1, 1), Approximation(1, MaxSize + 1)}

LatticePoints == 0 .. MaxSize + 1

\* The wrapped operator's outputs.
WrappedGetExchange(kappa, n) ==
    SpinorFunction(kappa, [i \in 1 .. n |-> RInt(2)], [i \in 1 .. n |-> RInt(3)])
WrappedApplyTo(a) == SpinorTimes(a, RInt(2))
WrappedGetODEFunction(latticepoint) ==
    [w |-> <<RInt(latticepoint + 1), RInt(-latticepoint)>>]
WrappedGetODECoefficients(latticepoint) ==
    [w_f |-> <<RInt(1), RInt(latticepoint)>>, w_g |-> <<RInt(latticepoint), RInt(-1)>>,
     w_const |-> <<RInt(latticepoint + 2), RInt(1)>>]
WrappedGetODEJacobian(latticepoint) ==
    [jacobian |-> <<RInt(1), RInt(latticepoint), RInt(latticepoint), RInt(-1)>>,
     dwdr |-> <<RInt(2), RInt(latticepoint + 3)>>]

\* A faulty test: the channel is never found in the map.
SigmaAlwaysMissing(kappa) == TRUE

\* sigmas.find(kappa) == sigmas.end()
SigmaMissing(kappa) == kappa \notin DOMAIN sigmas

\* A faulty assignment: it forgets the other channels.
StoreSigmaAlone(kappa, sigma) == [kap \in {kappa} |-> sigma]

\* sigmas[kappa] = sigma
StoreSigma(kappa, sigma) ==
    [kap \in (DOMAIN sigmas) \cup {kappa} |-> IF kap = kappa THEN sigma ELSE sigmas[kap]]

\* A faulty CalculateExtraNonlocal: a kappa without a potential is treated
\* as though its potential were the identity.
CalculateExtraNonlocalOfAbsent(s, include_derivative) ==
    LET applied == IF s.kappa \in DOMAIN sigmas
                   THEN IF Size(s) < sigmas[s.kappa].size
                        THEN SigmaApplyTo(sigmas[s.kappa], Resize(s, sigmas[s.kappa].size))
                        ELSE SigmaApplyTo(sigmas[s.kappa], s)
                   ELSE s
        ret == SpinorTimes(applied, RNeg(lambda))
    IN  IF include_derivative
        THEN [ret EXCEPT !.dfdr = GetDerivative(ret.f), !.dgdr = GetDerivative(ret.g)]
        ELSE ret

\* A faulty CalculateExtraNonlocal: the potential is applied to s as it is,
\* however short.
CalculateExtraNonlocalUnpadded(s, include_derivative) ==
    IF s.kappa \in DOMAIN sigmas
    THEN LET ret == SpinorTimes(SigmaApplyTo(sigmas[s.kappa], s), RNeg(lambda))
         IN  IF include_derivative
             THEN [ret EXCEPT !.dfdr = GetDerivative(ret.f), !.dgdr = GetDerivative(ret.g)]
             ELSE ret
    ELSE SpinorFunction(s.kappa, <<>>, <<>>)

\* BruecknerDecorator::CalculateExtraNonlocal(s, include_derivative)
CalculateExtraNonlocal(s, include_derivative) ==
    IF s.kappa \in DOMAIN sigmas
    THEN LET sigma == sigmas[s.kappa]
             applied == IF Size(s) < sigma.size
                        THEN SigmaApplyTo(sigma, Resize(s, sigma.size))
                        ELSE SigmaApplyTo(sigma, s)
             ret == SpinorTimes(applied, RNeg(lambda))
         IN  IF include_derivative
             THEN [ret EXCEPT !.dfdr = GetDerivative(ret.f), !.dgdr = GetDerivative(ret.g)]
             ELSE ret
    ELSE SpinorFunction(s.kappa, <<>>, <<>>)

\* The body of CalculateSigma(kappa, brueckner_calculator), the calculator
\* built on the given operator.
CalculateSigmaWith(kappa, operator) ==
    IF SigmaMissing(kappa)
    THEN /\ sigmas' = StoreSigma(kappa, SigmaPotential(numObjects + 1, latticeSize,
                                                       GetSecondOrderSigma(kappa, operator)))
         /\ numObjects' = numObjects + 1
         /\ numSigmaCalculations' = numSigmaCalculations + 1
    ELSE UNCHANGED <<sigmas, numObjects, numSigmaCalculations>>

\* BruecknerDecorator::CalculateSigma(kappa, brueckner_calculator)
CalculateSigma1 ==
    \E kappa \in SigmaKappas :
        /\ SigmaMissing(kappa) => numObjects < MaxObjects
        /\ CalculateSigmaWith(kappa, "wrapped")
        /\ call = Idle
        /\ lastOp' = [op |-> "CalculateSigma1", kappa |-> kappa, ret |-> <<>>]
        /\ UNCHANGED <<notBrueckner, currentExchangePotential, include_nonlocal, lambda, wrapped_include_nonlocal, latticeSize, files>>

\* BruecknerDecorator::CalculateSigma(kappa, orbitals, hartreeY, bare_hf)
CalculateSigma2 ==
    \E kappa \in SigmaKappas, bare_hf \in BOOLEAN :
        /\ SigmaMissing(kappa) => numObjects < MaxObjects
        /\ IF SigmaMissing(kappa)
           THEN CalculateSigmaWith(kappa, IF bare_hf THEN "bare_hf" ELSE "wrapped")
           ELSE UNCHANGED <<sigmas, numObjects, numSigmaCalculations>>
        /\ call = Idle
        /\ lastOp' = [op |-> "CalculateSigma2", kappa |-> kappa, ret |-> <<>>]
        /\ UNCHANGED <<notBrueckner, currentExchangePotential, include_nonlocal, lambda, wrapped_include_nonlocal, latticeSize, files>>

\* A faulty Read: it stores the potential whether or not the file was loaded.
SigmasAfterReadUnchecked(kappa, attempt) == StoreSigma(kappa, attempt.sigma)

\* The sigma map after Read has tried to load a file into a new potential.
SigmasAfterRead(kappa, attempt) ==
    IF attempt.ok THEN StoreSigma(kappa, attempt.sigma) ELSE sigmas

\* BruecknerDecorator::Read(identifier, kappa)
Read ==
    \E identifier \in Identifiers, kappa \in SigmaKappas :
        LET attempt == SigmaRead(Filename(identifier, kappa), numObjects + 1)
        IN  /\ attempt.ok => numObjects < MaxObjects
            /\ sigmas' = SigmasAfterRead(kappa, attempt)
            /\ numObjects' = IF attempt.ok THEN numObjects + 1 ELSE numObjects
            /\ call = Idle
            /\ lastOp' = [op |-> "Read", kappa |-> kappa, identifier |-> identifier,
                          ret |-> <<>>]
            /\ UNCHANGED <<notBrueckner, currentExchangePotential, include_nonlocal, lambda, wrapped_include_nonlocal, latticeSize,
                           files, numSigmaCalculations>>

\* BruecknerDecorator::Write(identifier, kappa)
Write ==
    \E identifier \in Identifiers, kappa \in SigmaKappas :
        /\ files' = IF kappa \in DOMAIN sigmas
                    THEN SigmaWrite(files, Filename(identifier, kappa), sigmas[kappa])
                    ELSE files
        /\ call = Idle
        /\ lastOp' = [op |-> "Write", ret |-> <<>>]
        /\ UNCHANGED <<notBrueckner, sigmas, currentExchangePotential, include_nonlocal, lambda, wrapped_include_nonlocal,
                       latticeSize, numObjects, numSigmaCalculations>>

\* BruecknerDecorator::Write(identifier): every potential of the map.
WriteAll ==
    \E identifier \in Identifiers :
        LET names == {Filename(identifier, kap) : kap \in DOMAIN sigmas}
            KappaOf(name) == CHOOSE kap \in DOMAIN sigmas : Filename(identifier, kap) = name
        IN  /\ files' = [name \in (DOMAIN files) \cup names |->
                            IF name \in names
                            THEN [size |-> sigmas[KappaOf(name)].size,
                                  content |-> sigmas[KappaOf(name)].content]
                            ELSE files[name]]
            /\ call = Idle
            /\ lastOp' = [op |-> "WriteAll", ret |-> <<>>]
            /\ UNCHANGED <<notBrueckner, sigmas, currentExchangePotential, include_nonlocal, lambda, wrapped_include_nonlocal,
                           latticeSize, numObjects, numSigmaCalculations>>

\* Another run of the program, on a lattice of its own, leaves a sigma file.
OtherRunWrites ==
    \E identifier \in Identifiers, kappa \in SigmaKappas :
        /\ files' = SigmaWrite(files, Filename(identifier, kappa),
                               SigmaPotential(0, MaxSize + 1, RInt(7)))
        /\ call = Idle
        /\ lastOp' = [op |-> "OtherRunWrites"]
        /\ UNCHANGED <<notBrueckner, sigmas, currentExchangePotential, include_nonlocal, lambda, wrapped_include_nonlocal,
                       latticeSize, numObjects, numSigmaCalculations>>

unchangedByQuery == <<engineVars, slaterVars, cacheOp, bruecknerVars>>

\* A faulty Alert: the potential always takes the size of the lattice.
AlertedToLattice(size) == Resize(currentExchangePotential, size)

\* currentExchangePotential after BruecknerDecorator::Alert() on a lattice
\* of the given size.
Alerted(size) ==
    IF Size(currentExchangePotential) > size
    THEN Resize(currentExchangePotential, size)
    ELSE currentExchangePotential

\* BruecknerDecorator::Alert()
Alert ==
    /\ call = Idle
    /\ currentExchangePotential' = Alerted(latticeSize)
    /\ lastOp' = [op |-> "Alert", ret |-> <<>>]
    /\ UNCHANGED <<notBrueckner, sigmas, include_nonlocal, lambda, wrapped_include_nonlocal, latticeSize, files,
                   numObjects, numSigmaCalculations>>

\* The lattice grows by a point and alerts its observers, the decorator
\* among them.
LatticeGrows ==
    /\ call = Idle
    /\ latticeSize <= MaxSize
    /\ latticeSize' = latticeSize + 1
    /\ currentExchangePotential' = Alerted(latticeSize + 1)
    /\ lastOp' = [op |-> "Alert", ret |-> <<>>]
    /\ UNCHANGED <<notBrueckner, sigmas, include_nonlocal, lambda, wrapped_include_nonlocal, files, numObjects,
                   numSigmaCalculations>>

\* A faulty IncludeExchange: the flag is not passed on to the wrapped object.
IncludeExchangeNotForwarded(chain, include_exchange) == chain

\* wrapped->IncludeExchange(include_exchange) on the objects below: each
\* decorator sets its flag and passes the call on; the innermost SpinorODE
\* sets its flag.
RECURSIVE IncludeExchangeOfWrapped(_, _)
IncludeExchangeOfWrapped(chain, include_exchange) ==
    IF chain = <<>> THEN <<>>
    ELSE <<include_exchange>> \o IncludeExchangeOfWrapped(Tail(chain), include_exchange)

\* SpinorODEDecorator::IncludeExchange(include_exchange)
IncludeExchange ==
    \E include_exchange \in BOOLEAN :
        /\ include_nonlocal' = include_exchange
        /\ wrapped_include_nonlocal' =
              IncludeExchangeOfWrapped(wrapped_include_nonlocal, include_exchange)
        /\ call = Idle
        /\ lastOp' = [op |-> "IncludeExchange", include_exchange |-> include_exchange,
                      ret |-> <<>>]
        /\ UNCHANGED <<notBrueckner, sigmas, currentExchangePotential, lambda, latticeSize, files,
                       numObjects, numSigmaCalculations>>

\* SpinorODEDecorator::SpinorODEDecorator(decorated_object): a new decorator
\* is put around the outermost one and becomes the object at hand.  Its own
\* flag is whatever SpinorODE::SpinorODE leaves in it.
WrapDecorator ==
    /\ call = Idle
    /\ Len(wrapped_include_nonlocal) < MaxDepth
    /\ \E constructed \in BOOLEAN : include_nonlocal' = constructed
    /\ wrapped_include_nonlocal' = <<include_nonlocal>> \o wrapped_include_nonlocal
    /\ lastOp' = [op |-> "SpinorODEDecorator", ret |-> <<>>]
    /\ UNCHANGED <<notBrueckner, sigmas, currentExchangePotential, lambda, latticeSize, files,
                   numObjects, numSigmaCalculations>>

\* SpinorODE::IncludeExchange() const, asked of the decorator at hand
\* (layer 0) or of one of the objects below it.
IncludeExchangeQuery ==
    /\ call = Idle
    /\ \E layer \in 0 .. Len(wrapped_include_nonlocal) :
          call' = [op |-> "IncludeExchangeQuery", layer |-> layer,
                   ret |-> IF layer = 0 THEN include_nonlocal
                           ELSE wrapped_include_nonlocal[layer]]
    /\ UNCHANGED unchangedByQuery

\* A faulty SetODEParameters: it sets the wrapped operator's parameters
\* alone.
SetODEParametersOfWrapped ==
    /\ call = Idle
    /\ lastOp' = [op |-> "SetODEParameters", ret |-> <<>>]
    /\ UNCHANGED <<notBrueckner, sigmas, currentExchangePotential, include_nonlocal, lambda,
                   wrapped_include_nonlocal, latticeSize, files, numObjects,
                   numSigmaCalculations>>

\* BruecknerDecorator::SetODEParameters(approximation)
SetODEParameters ==
    \E approximation \in Approximations :
        /\ currentExchangePotential' = CalculateExtraNonlocal(approximation, TRUE)
        /\ call = Idle
        /\ lastOp' = [op |-> "SetODEParameters", ret |-> <<>>]
        /\ UNCHANGED <<notBrueckner, sigmas, include_nonlocal, lambda, wrapped_include_nonlocal, latticeSize, files, numObjects,
                       numSigmaCalculations>>

\* BruecknerDecorator::GetExchange(approximation), approximation not NULL
GetExchange ==
    \E approximation \in Approximations :
        /\ call = Idle
        /\ call' = [op |-> "GetExchange", kappa |-> approximation.kappa,
                      a |-> approximation,
                      ret |-> <<SpinorPlus(WrappedGetExchange(approximation.kappa,
                                                              Size(approximation)),
                                           CalculateExtraNonlocal(approximation, TRUE))>>]
        /\ UNCHANGED unchangedByQuery

\* BruecknerDecorator::GetExchange(NULL)
GetExchangeNull ==
    /\ call = Idle
        /\ call' = [op |-> "GetExchangeNull",
                  ret |-> <<SpinorPlus(WrappedGetExchange(currentExchangePotential.kappa,
                                                          latticeSize),
                                       currentExchangePotential)>>]
    /\ UNCHANGED unchangedByQuery

\* BruecknerDecorator::ApplyTo(a)
ApplyTo ==
    \E a \in Approximations :
        /\ call = Idle
        /\ call' = [op |-> "ApplyTo", kappa |-> a.kappa, a |-> a,
                      ret |-> <<SpinorMinus(WrappedApplyTo(a),
                                            CalculateExtraNonlocal(a, FALSE))>>]
        /\ UNCHANGED unchangedByQuery

\* A faulty test: it lacks the comparison against the size.
AddsNonlocalTermUnchecked(latticepoint) == include_nonlocal

\* include_nonlocal && latticepoint < currentExchangePotential.size()
AddsNonlocalTerm(latticepoint) ==
    include_nonlocal /\ latticepoint < Size(currentExchangePotential)

\* x[0] += alpha * plus[latticepoint]; x[1] -= alpha * minus[latticepoint];
WithNonlocalTerm(x, plus, minus, latticepoint, junk) ==
    <<RAdd(x[1], RMul(Alpha, At(plus, latticepoint, junk))),
      RSub(x[2], RMul(Alpha, At(minus, latticepoint, junk)))>>

\* The record of an ODE query: the point, the wrapped operator's output,
\* the decorator's output and whether the nonlocal potential was indexed.
ODEQuery(op, latticepoint, wrapped, ret, indexed) ==
    [op |-> op, latticepoint |-> latticepoint, wrapped |-> wrapped, ret |-> ret,
     indexed |-> indexed]

\* BruecknerDecorator::GetODEFunction(latticepoint, fg, w)
GetODEFunction ==
    \E latticepoint \in LatticePoints, junk \in Junk :
        LET wrapped == WrappedGetODEFunction(latticepoint)
            adds == AddsNonlocalTerm(latticepoint)
            ret == IF adds
                   THEN [wrapped EXCEPT !.w =
                            WithNonlocalTerm(@, currentExchangePotential.g,
                                             currentExchangePotential.f, latticepoint, junk)]
                   ELSE wrapped
        IN  /\ call = Idle
            /\ call' = ODEQuery("GetODEFunction", latticepoint, wrapped, ret, adds)
            /\ UNCHANGED unchangedByQuery

\* BruecknerDecorator::GetODECoefficients(latticepoint, fg, w_f, w_g, w_const)
GetODECoefficients ==
    \E latticepoint \in LatticePoints, junk \in Junk :
        LET wrapped == WrappedGetODECoefficients(latticepoint)
            adds == AddsNonlocalTerm(latticepoint)
            ret == IF adds
                   THEN [wrapped EXCEPT !.w_const =
                            WithNonlocalTerm(@, currentExchangePotential.g,
                                             currentExchangePotential.f, latticepoint, junk)]
                   ELSE wrapped
        IN  /\ call = Idle
            /\ call' = ODEQuery("GetODECoefficients", latticepoint, wrapped, ret, adds)
            /\ UNCHANGED unchangedByQuery

\* BruecknerDecorator::GetODEJacobian(latticepoint, fg, jacobian, dwdr)
GetODEJacobian ==
    \E latticepoint \in LatticePoints, junk \in Junk :
        LET wrapped == WrappedGetODEJacobian(latticepoint)
            adds == AddsNonlocalTerm(latticepoint)
            ret == IF adds
                   THEN [wrapped EXCEPT !.dwdr =
                            WithNonlocalTerm(@, currentExchangePotential.dgdr,
                                             currentExchangePotential.dfdr, latticepoint, junk)]
                   ELSE wrapped
        IN  /\ call = Idle
            /\ call' = ODEQuery("GetODEJacobian", latticepoint, wrapped, ret, adds)
            /\ UNCHANGED unchangedByQuery

----------------------------------------------------------------------------
(* Initial state and the engine's specification.                           *)

EmptySpinor == SpinorFunction(-1, <<>>, <<>>)

Init ==
    /\ excited = Shell(MinPQN) \cup Shell(MinPQN + 1)
    /\ high = {s \in Shell(MinPQN) \cup Shell(MinPQN + 1) : InQSpace(s)}
    /\ ValenceEnergies = NoValenceEnergies
    /\ MaxStateSize = 0
    /\ one_body = EmptyStore
    /\ two_body = EmptyStore
    /\ state_index = [s \in {} |-> 0]
    /\ OneElectronIntegrals = EmptyStore
    /\ SMSIntegrals = EmptyStore
    /\ TwoElectronIntegrals = EmptyStore
    /\ include_valence_sms = FALSE
    /\ cacheOp = CacheOp("none", 0, 0)
    /\ call = Idle
    /\ sigmas = [kap \in {} |-> 0]
    /\ currentExchangePotential = EmptySpinor
    /\ include_nonlocal = TRUE
    /\ wrapped_include_nonlocal = <<TRUE>>
    /\ lambda = RInt(1)
    /\ latticeSize = MaxSize
    /\ files = NoFiles
    /\ numObjects = 0
    /\ numSigmaCalculations = 0
    /\ lastOp = [op |-> "none"]

Next ==
    \/ GrowExcited
    \/ UpdateIntegrals
    \/ CallGetOneElectronValence
    \/ CallGetTwoElectronValence
    \/ CallGetTwoElectronBoxValence
    \/ CallGetOneElectronSubtraction
    \/ CallMBPTGetTwoElectronValence
    \/ CallMBPTGetTwoElectronBoxValence
    \/ CallGetTwoElectronSubtraction
    \/ Return

Spec == Init /\ [][Next]_vars

----------------------------------------------------------------------------
(* The BruecknerDecorator on its own: first the life of the sigma map and  *)
(* of the files, then the decorator as an ODE.                             *)

NextBrueckner ==
    \/ CalculateSigma1
    \/ CalculateSigma2
    \/ Read
    \/ Write
    \/ WriteAll
    \/ OtherRunWrites
    \/ Alert
    \/ SetODEParameters
    \/ GetExchange
    \/ GetExchangeNull
    \/ ApplyTo
    \/ Return

SpecBrueckner == Init /\ [][NextBrueckner]_vars

NextODE ==
    \/ CalculateSigma1
    \/ SetODEParameters
    \/ Alert
    \/ LatticeGrows
    \/ IncludeExchange
    \/ GetODEFunction
    \/ GetODECoefficients
    \/ GetODEJacobian
    \/ Return

SpecODE == Init /\ [][NextODE]_vars

\* The decorator as an ODE while its sigma map changes under it.
NextSnapshot ==
    \/ CalculateSigma1
    \/ OtherRunWrites
    \/ Read
    \/ SetODEParameters
    \/ Alert
    \/ GetODEFunction
    \/ GetODECoefficients
    \/ GetODEJacobian
    \/ GetExchangeNull
    \/ Return

SpecSnapshot == Init /\ [][NextSnapshot]_vars

\* A chain of nested decorators and the flag of each.
NextChain ==
    \/ WrapDecorator
    \/ IncludeExchange
    \/ IncludeExchangeQuery
    \/ Return

SpecChain == Init /\ [][NextChain]_vars

----------------------------------------------------------------------------
(* The integral stores on their own.                                       *)

NextCache ==
    \/ GrowExcited
    \/ GetStorageSize
    \/ UpdateIntegrals
    \/ Destructor
    \/ SlaterGetStorageSize
    \/ Update
    \/ Clear
    \/ IncludeValenceSMS
    \/ GetOneElectronIntegral
    \/ GetSMSIntegral
    \/ SlaterGetTwoElectronIntegral
    \/ Return

SpecCache == Init /\ [][NextCache]_vars

\* The lookups of SlaterIntegrals as its callers use them: any ordering of
\* the orbitals, before and after the updates.
NextLookup ==
    \/ GrowExcited
    \/ Update
    \/ Clear
    \/ IncludeValenceSMS
    \/ GetOneElectronIntegralEitherOrder
    \/ GetTwoElectronIntegralAnyOrdering
    \/ Return

SpecLookup == Init /\ [][NextLookup]_vars

----------------------------------------------------------------------------
(* OrbitalInfo and Orbital objects on their own.  call holds the object    *)
(* (ext[1]) and what the last operation on it returned, until the object   *)
(* is let go (Return).                                                     *)

NonzeroKappas == (-MaxAbsKappa .. MaxAbsKappa) \ {0}

\* Orbital::Orbital: kappa, pqn and occupancy = 2.*abs(kappa).
Orbital(kappa, pqn) == [pqn |-> pqn, kappa |-> kappa, occupancy |-> 2 * Abs(kappa)]

InfoOps ==
    {"OrbitalInfo", "PQN", "Kappa", "L", "J", "TwoJ", "L_Prime", "MaxNumElectrons"}
OrbitalOps == {"Orbital", "OrbitalRead"}

\* OrbitalInfo::OrbitalInfo(int pqn, int kappa)
NewOrbitalInfo ==
    /\ call = Idle
    /\ \E pqn \in PQNs, kappa \in NonzeroKappas :
          call' = Call("OrbitalInfo", <<OrbitalInfo(pqn, kappa)>>, 0, 0,
                       OrbitalInfo(pqn, kappa))
    /\ UNCHANGED <<MaxStateSize, unchangedByCall>>

\* OrbitalInfo::OrbitalInfo(const Orbital* s): pqn = s->PQN(), kappa = s->Kappa()
OrbitalInfoOfOrbital ==
    /\ call.op \in OrbitalOps
    /\ call' = Call("OrbitalInfo", <<OrbitalInfo(call.ext[1].pqn, call.ext[1].kappa)>>, 0, 0,
                    OrbitalInfo(call.ext[1].pqn, call.ext[1].kappa))
    /\ UNCHANGED <<MaxStateSize, unchangedByCall>>

\* The const accessors of OrbitalInfo, called on the object at hand.
QueryOrbitalInfo ==
    /\ call.op \in InfoOps
    /\ \E f \in InfoOps \ {"OrbitalInfo"} :
          call' = Call(f, call.ext, 0, 0,
                       CASE f = "PQN" -> PQN(call.ext[1])
                         [] f = "Kappa" -> Kappa(call.ext[1])
                         [] f = "L" -> L(call.ext[1])
                         [] f = "J" -> J(call.ext[1])
                         [] f = "TwoJ" -> TwoJ(call.ext[1])
                         [] f = "L_Prime" -> L_Prime(call.ext[1])
                         [] OTHER -> MaxNumElectrons(call.ext[1]))
    /\ UNCHANGED <<MaxStateSize, unchangedByCall>>

\* Orbital::Orbital(int kappa, unsigned int pqn, double energy, unsigned int size)
NewOrbital ==
    /\ call = Idle
    /\ \E pqn \in PQNs, kappa \in NonzeroKappas :
          call' = Call("Orbital", <<Orbital(kappa, pqn)>>, 0, 0, Orbital(kappa, pqn))
    /\ UNCHANGED <<MaxStateSize, unchangedByCall>>

\* Orbital::Orbital(const OrbitalInfo& info)
OrbitalOfOrbitalInfo ==
    /\ call.op \in InfoOps
    /\ call' = Call("Orbital", <<Orbital(call.ext[1].kappa, call.ext[1].pqn)>>, 0, 0,
                    Orbital(call.ext[1].kappa, call.ext[1].pqn))
    /\ UNCHANGED <<MaxStateSize, unchangedByCall>>

\* Orbital::Read(fp): kappa, pqn and occupancy are overwritten by what the
\* file holds.
OrbitalRead ==
    /\ call.op \in OrbitalOps
    /\ \E pqn \in PQNs, kappa \in NonzeroKappas, occupancy \in 0 .. 2 * MaxAbsKappa :
          call' = Call("OrbitalRead",
                       <<[pqn |-> pqn, kappa |-> kappa, occupancy |-> occupancy]>>, 0, 0, 0)
    /\ UNCHANGED <<MaxStateSize, unchangedByCall>>

NextOrbital ==
    \/ NewOrbitalInfo
    \/ OrbitalInfoOfOrbital
    \/ QueryOrbitalInfo
    \/ NewOrbital
    \/ OrbitalOfOrbitalInfo
    \/ OrbitalRead
    \/ Return

SpecOrbital == Init /\ [][NextOrbital]_vars

----------------------------------------------------------------------------
(* The sums of the engine step by step: one step for each test of a loop   *)
(* condition.  While a sum runs, call holds its arguments, the position of *)
(* its iterators (an index into the orbitals in map order, one past the    *)
(* last at the end), k1, k2 and how far the iterators have advanced.       *)

OneBodySums == {"CalculateOneElectronSub", "CalculateOneElectronValence1"}
BoxSums == {"CalculateTwoElectronValence", "CalculateTwoElectronValence1"}
SubtractionSums == {"CalculateTwoElectronSub", "CalculateTwoElectronValence2"}
Sums == OneBodySums \cup BoxSums \cup SubtractionSums

\* The orbitals a sum iterates over: ValenceMBPTCalculator takes the
\* one-body and the subtraction sum over high, everything else runs over
\* excited.
IteratedOrbitals(op) ==
    IF op \in {"CalculateOneElectronSub", "CalculateTwoElectronSub"}
    THEN OrbitalSeq(high) ELSE OrbitalSeq(excited)

Loop(op, ext, k, pc, it_alpha, it_beta, k1, k2, pass, visited) ==
    [op |-> op, ext |-> ext, k |-> k, pc |-> pc, it_alpha |-> it_alpha,
     it_beta |-> it_beta, k1 |-> k1, k2 |-> k2, pass |-> pass, visited |-> visited]

\* A faulty advance: a pruned iteration leaves the iterator where it is.
NextUnlessPruned(it, pruned) == IF pruned THEN it ELSE it + 1

\* it++ / it.Next() at the end of the body of a while loop, whether or not
\* the body was pruned.
IteratorNext(it, pruned) == it + 1

\* !it.AtEnd() / it != end()
AtEnd(op, it) == it > Len(IteratedOrbitals(op))

\* The orbitals the iterators of the running sum stand at.
LoopAlphaOrbital == IteratedOrbitals(call.op)[call.it_alpha]
LoopBetaOrbital == IteratedOrbitals(call.op)[call.it_beta]

\* The test the box sum makes of the pair the iterators stand at.
LoopPairQualifies ==
    IF call.op = "CalculateTwoElectronValence"
    THEN PairCondition(call.ext[1], call.ext[2], call.ext[3], call.ext[4],
                       LoopAlphaOrbital, LoopBetaOrbital)
    ELSE /\ PQN(LoopAlphaOrbital) >= QSpaceCutoff \/ PQN(LoopBetaOrbital) >= QSpaceCutoff
         /\ (L(call.ext[1]) + L(LoopAlphaOrbital)) % 2 = (L(call.ext[2]) + L(LoopBetaOrbital)) % 2
         /\ (L(LoopAlphaOrbital) + L(call.ext[3])) % 2 = (L(call.ext[4]) + L(LoopBetaOrbital)) % 2

\* The first value and the upper bound of the k1 and of the k2 loop.
K1Start == IF call.op = "CalculateTwoElectronValence"
           THEN kmin(call.ext[1], LoopAlphaOrbital)
           ELSE (L(call.ext[1]) + L(LoopAlphaOrbital)) % 2
K1Max == IF call.op = "CalculateTwoElectronValence"
         THEN kmax(call.ext[1], LoopAlphaOrbital) ELSE MAX_K
K2Start == IF call.op = "CalculateTwoElectronValence"
           THEN kmin(LoopAlphaOrbital, call.ext[3])
           ELSE (L(LoopAlphaOrbital) + L(call.ext[3])) % 2
K2Max == IF call.op = "CalculateTwoElectronValence"
         THEN kmax(LoopAlphaOrbital, call.ext[3]) ELSE MAX_K

\* A sum is entered; the box sum returns at once if an outer coefficient
\* is zero.
LoopStart ==
    /\ call = Idle
    /\ \E op \in Sums, s1 \in valence, s2 \in valence, s3 \in valence, s4 \in valence,
          k \in Multipoles :
          /\ op \in OneBodySums => s3 = s1 /\ s4 = s2 /\ k = 0
          /\ (op \in BoxSums /\ OuterCoefficientZero(s1, s2, s3, s4, k)) \/ ValenceEnergiesSet
          /\ call' = Loop(op, <<s1, s2, s3, s4>>, k,
                          IF op \in BoxSums /\ OuterCoefficientZero(s1, s2, s3, s4, k)
                          THEN "returned" ELSE "alpha",
                          1, 1, 0, 0, 1, 0)
    /\ UNCHANGED <<MaxStateSize, unchangedByCall>>

\* while(it_alpha != end): at the end the sum returns (CalculateTwoElectronValence2
\* first runs its second loop, it3.First()); the box sum enters the loop
\* over beta; the other sums run their body, pruned or not, and advance.
LoopAlpha ==
    /\ call.op \in Sums
    /\ call.pc = "alpha"
    /\ call' = IF AtEnd(call.op, call.it_alpha)
               THEN IF call.op = "CalculateTwoElectronValence2" /\ call.pass = 1
                    THEN [call EXCEPT !.pass = 2, !.it_alpha = 1]
                    ELSE [call EXCEPT !.pc = "returned"]
               ELSE IF call.op \in BoxSums
                    THEN [call EXCEPT !.pc = "beta", !.it_beta = 1]
                    ELSE LET next == IteratorNext(call.it_alpha,
                                     \/ ~InQSpace(LoopAlphaOrbital)
                                     \/ \A j \in 1 .. 4 :
                                           Kappa(call.ext[j]) # Kappa(LoopAlphaOrbital))
                         IN  [call EXCEPT !.it_alpha = next,
                                          !.visited = @ + (next - call.it_alpha)]
    /\ UNCHANGED <<MaxStateSize, unchangedByCall>>

\* while(it_beta != end): at the end it_alpha advances; a pair that fails
\* the test is passed over; otherwise the k1 loop is entered.
LoopBeta ==
    /\ call.op \in BoxSums
    /\ call.pc = "beta"
    /\ call' = IF AtEnd(call.op, call.it_beta)
               THEN [call EXCEPT !.pc = "alpha", !.it_alpha = IteratorNext(@, FALSE)]
               ELSE IF LoopPairQualifies
                    THEN [call EXCEPT !.pc = "k1", !.k1 = K1Start]
                    ELSE LET next == IteratorNext(call.it_beta, TRUE)
                         IN  [call EXCEPT !.it_beta = next,
                                          !.visited = @ + (next - call.it_beta)]
    /\ UNCHANGED <<MaxStateSize, unchangedByCall>>

\* while(k1 <= k1max): past the bound it_beta advances; with a nonzero
\* coeff_ab the k2 loop is entered; otherwise k1 += 2.
LoopK1 ==
    /\ call.op \in BoxSums
    /\ call.pc = "k1"
    /\ call' = IF call.k1 > K1Max
               THEN [call EXCEPT !.pc = "beta", !.it_beta = IteratorNext(@, FALSE),
                                 !.visited = @ + 1]
               ELSE IF ~RIsZero(RMul(Electron3j(TwoJ(call.ext[1]), TwoJ(LoopAlphaOrbital), call.k1),
                                     Electron3j(TwoJ(call.ext[2]), TwoJ(LoopBetaOrbital), call.k1)))
                    THEN [call EXCEPT !.pc = "k2", !.k2 = K2Start]
                    ELSE [call EXCEPT !.k1 = @ + 2]
    /\ UNCHANGED <<MaxStateSize, unchangedByCall>>

\* while(k2 <= k2max): past the bound k1 += 2; otherwise the term is added
\* or not and k2 += 2.
LoopK2 ==
    /\ call.op \in BoxSums
    /\ call.pc = "k2"
    /\ call' = IF call.k2 > K2Max
               THEN [call EXCEPT !.pc = "k1", !.k1 = @ + 2]
               ELSE [call EXCEPT !.k2 = @ + 2]
    /\ UNCHANGED <<MaxStateSize, unchangedByCall>>

\* The caller takes the result of a sum that has returned.
LoopReturn ==
    /\ call.op \in Sums
    /\ call.pc = "returned"
    /\ call' = Idle
    /\ UNCHANGED <<MaxStateSize, unchangedByCall>>

LoopStep == LoopAlpha \/ LoopBeta \/ LoopK1 \/ LoopK2

NextLoop ==
    \/ GrowExcited
    \/ UpdateIntegrals
    \/ LoopStart
    \/ LoopAlpha
    \/ LoopBeta
    \/ LoopK1
    \/ LoopK2
    \/ LoopReturn

\* The engine runs in one thread with no suspension point: a sum that has
\* been entered keeps taking its steps.
SpecLoop == Init /\ [][NextLoop]_vars /\ WF_vars(LoopStep)

----------------------------------------------------------------------------
(* Properties of the perturbation engine (Spec).                           *)

TwoBodyValenceOps ==
    {"GetTwoElectronValence", "GetTwoElectronBoxValence", "MBPTGetTwoElectronValence"}

\* The evaluation in call is a two-body valence correction whose outer
\* coefficient coeff_ac or coeff_bd is zero.
ZeroOuterCoefficientCall ==
    /\ call.op \in TwoBodyValenceOps
    /\ OuterCoefficientZero(call.ext[1], call.ext[2], call.ext[3], call.ext[4], call.k)

\* C1: every two-body valence correction (ValenceCalculator::GetTwoElectronValence,
\* ValenceCalculator::GetTwoElectronBoxValence, ValenceMBPTCalculator::GetTwoElectronValence)
\* returns exactly 0.0 when coeff_ac or coeff_bd is zero.
C1_ZeroOuterCoefficientGivesZero ==
    ZeroOuterCoefficientCall => call.result.energy = RZero

OneBodyOps == {"GetOneElectronValence", "GetOneElectronSubtraction"}

\* The evaluation in call is a one-body correction between orbitals of
\* different kappa.
KappaMismatchCall ==
    /\ call.op \in OneBodyOps
    /\ Kappa(call.ext[1]) # Kappa(call.ext[2])

\* C2: a one-body correction between orbitals of different kappa returns
\* exactly 0.0 and has visited no intermediate orbital, looked up no valence
\* energy and fetched no matrix element.
C2_KappaMismatchGivesZero ==
    KappaMismatchCall =>
        /\ call.result.energy = RZero
        /\ call.result.visited = 0
        /\ call.result.ve = 0
        /\ call.result.me = 0

\* Both one-body corrections can be asked for mismatched kappas once the
\* integrals are stored, when the sums could have run.
C2_Witness ==
    /\ KappaMismatchCall
    /\ IntegralsStored
    /\ call.result.energy = RZero

----------------------------------------------------------------------------
(* Properties of the BruecknerDecorator (SpecBrueckner, SpecODE).          *)

CalculateSigmaOps == {"CalculateSigma1", "CalculateSigma2"}

\* C3: CalculateSigma (either overload) for a kappa that is already in the
\* map invokes no sigma calculator, allocates no potential and leaves the
\* map, and so the object stored for that kappa and its contents, as it was.
C3_CalculateSigmaOnPresentKappaIsNoOp ==
    [][(lastOp'.op \in CalculateSigmaOps /\ lastOp'.kappa \in DOMAIN sigmas)
          => /\ sigmas' = sigmas
             /\ numSigmaCalculations' = numSigmaCalculations
             /\ numObjects' = numObjects]_vars

\* CalculateSigma has been called for a channel that a Read had filled: the
\* potential is in the map and no sigma calculator has ever run.
C3_Witness ==
    /\ lastOp.op \in CalculateSigmaOps
    /\ lastOp.kappa \in DOMAIN sigmas
    /\ numSigmaCalculations = 0

\* The file Read(identifier, kappa) named by lastOp looks for.
FileOfRead(op) == Filename(op.identifier, op.kappa)

\* C4: every channel starts Uncomputed; a Computed channel stays Computed;
\* and the entry of a kappa is added or changed only by CalculateSigma for
\* that kappa or by a Read for that kappa that found its file.
C4_ChannelLifecycle ==
    /\ DOMAIN sigmas = {}
    /\ [][\A kap \in SigmaKappas :
             /\ kap \in DOMAIN sigmas => kap \in DOMAIN sigmas'
             /\ (kap \in DOMAIN sigmas' /\ (kap \in DOMAIN sigmas => sigmas'[kap] # sigmas[kap]))
                   => /\ lastOp'.op \in CalculateSigmaOps \cup {"Read"}
                      /\ lastOp'.kappa = kap
                      /\ lastOp'.op = "Read" => FileOfRead(lastOp') \in DOMAIN files
                      /\ lastOp'.op \in CalculateSigmaOps => kap \notin DOMAIN sigmas]_vars

\* Both channels are Computed, one by a sigma calculator and one by Read,
\* and the decorator has been used since.
C4_Witness ==
    /\ DOMAIN sigmas = SigmaKappas
    /\ numSigmaCalculations = 1
    /\ lastOp.op = "SetODEParameters"
    /\ Size(currentExchangePotential) > 0

\* C5 (as the code has it): a Read that cannot load its file hands nothing
\* back (it returns void) and leaves the sigma map as it was; a CalculateSigma
\* for the still Uncomputed channel that follows computes and stores the
\* potential.
C5_FailedReadLeavesMapAndRecomputes ==
    [][/\ (lastOp'.op = "Read" /\ FileOfRead(lastOp') \notin DOMAIN files)
            => sigmas' = sigmas /\ lastOp'.ret = <<>>
       /\ (/\ lastOp.op = "Read"
           /\ FileOfRead(lastOp) \notin DOMAIN files
           /\ lastOp.kappa \notin DOMAIN sigmas
           /\ lastOp'.op \in CalculateSigmaOps
           /\ lastOp'.kappa = lastOp.kappa)
            => /\ lastOp.kappa \in DOMAIN sigmas'
               /\ numSigmaCalculations' = numSigmaCalculations + 1]_vars

\* A Read has failed on an Uncomputed channel while the other channel holds
\* a potential.
C5_Witness ==
    /\ lastOp.op = "Read"
    /\ FileOfRead(lastOp) \notin DOMAIN files
    /\ lastOp.kappa \notin DOMAIN sigmas
    /\ DOMAIN sigmas # {}

\* C5 as stated: Read reports to its caller, as a boolean, whether the file
\* was loaded.
C5_ReadReportsBoolean ==
    lastOp.op = "Read" => lastOp.ret \in {<<TRUE>>, <<FALSE>>}

ODEOps == {"GetODEFunction", "GetODECoefficients", "GetODEJacobian"}

\* The wrapped operator's output with the alpha-scaled nonlocal term of
\* the current potential added at the point of the query in call.
WrappedPlusNonlocal ==
    LET p == call.latticepoint + 1
        pot == currentExchangePotential
        function(x) == <<RAdd(x[1], RMul(Alpha, pot.g[p])), RSub(x[2], RMul(Alpha, pot.f[p]))>>
        jacobian(x) == <<RAdd(x[1], RMul(Alpha, pot.dgdr[p])),
                         RSub(x[2], RMul(Alpha, pot.dfdr[p]))>>
    IN  CASE call.op = "GetODEFunction" -> [call.wrapped EXCEPT !.w = function(@)]
          [] call.op = "GetODECoefficients" -> [call.wrapped EXCEPT !.w_const = function(@)]
          [] call.op = "GetODEJacobian" -> [call.wrapped EXCEPT !.dwdr = jacobian(@)]

\* C6: GetODEFunction, GetODECoefficients and GetODEJacobian return the
\* wrapped operator's output plus the alpha-scaled nonlocal term when
\* include_nonlocal is set and the point is below the size of the current
\* nonlocal potential, return exactly the wrapped output otherwise, and never
\* index the potential at or beyond its size.
C6_NonlocalTermOnlyWithinPotential ==
    call.op \in ODEOps =>
        /\ call.indexed => call.latticepoint < Size(currentExchangePotential)
        /\ IF include_nonlocal /\ call.latticepoint < Size(currentExchangePotential)
           THEN call.ret = WrappedPlusNonlocal
           ELSE call.ret = call.wrapped

\* A query below the size of a nonzero potential, which changed the output,
\* made on a decorator whose potential is shorter than the lattice.
C6_Witness ==
    /\ call.op \in ODEOps
    /\ include_nonlocal
    /\ call.latticepoint < Size(currentExchangePotential)
    /\ Size(currentExchangePotential) < latticeSize
    /\ call.ret # call.wrapped

----------------------------------------------------------------------------
(* Properties of the integral stores (SpecCache).                          *)

calculatorStores == <<one_body, two_body>>
slaterStores == <<OneElectronIntegrals, SMSIntegrals, TwoElectronIntegrals>>

LookupOps == {"GetOneElectronIntegral", "GetSMSIntegral", "SlaterGetTwoElectronIntegral"}

\* What the lookup in call finds in the stores as they are now.
LookupNow ==
    CASE call.op = "GetOneElectronIntegral" ->
             Lookup(OneElectronIntegrals, OneElectronKey(call.ext[1], call.ext[2]))
      [] call.op = "GetSMSIntegral" ->
             Lookup(SMSIntegrals, OneElectronKey(call.ext[1], call.ext[2]))
      [] call.op = "SlaterGetTwoElectronIntegral" ->
             Lookup(TwoElectronIntegrals,
                    TwoElectronKey(call.k, call.ext[1], call.ext[2], call.ext[3], call.ext[4]))

\* C7: GetStorageSize leaves every integral store as it was, and what a
\* lookup returns is a function of the stores alone, so no lookup can tell
\* whether GetStorageSize was ever called.
C7_GetStorageSizeLeavesStores ==
    /\ [](call.op \in LookupOps => call.result = LookupNow)
    /\ [][cacheOp'.op \in {"GetStorageSize", "SlaterGetStorageSize"}
             => UNCHANGED <<calculatorStores, slaterStores>>]_vars

\* GetStorageSize has reported more integrals than the stores hold.
C7_Witness ==
    /\ cacheOp.op = "GetStorageSize"
    /\ cacheOp.ret > StoredIntegrals
    /\ cacheOp.before = StoredIntegrals

\* C8: an update that directly follows an update, the orbital sets being the
\* same, leaves the one-electron and two-electron stores and the valence
\* energies as the first update left them.
C8_UpdateTwiceIsUpdateOnce ==
    [][/\ (cacheOp.op = "UpdateIntegrals" /\ cacheOp'.op = "UpdateIntegrals")
            => UNCHANGED <<calculatorStores, ValenceEnergies>>
       /\ (cacheOp.op = "Update" /\ cacheOp'.op = "Update")
            => UNCHANGED <<slaterStores, state_index>>]_vars

\* An update has run on stores that already held everything it calculates.
C8_Witness ==
    /\ cacheOp.op = "UpdateIntegrals"
    /\ cacheOp.before > 0
    /\ cacheOp.before = StoredIntegrals
    /\ ValenceEnergiesSet

\* Every entry of the store old is in the store new with the same value.
Kept(old, new) == \A key \in DOMAIN old : key \in DOMAIN new /\ new[key] = old[key]

\* C9: an update keeps every integral stored before it, with its value, and
\* leaves stored every integral of the orbital sets as they are now, the
\* orbitals added since the last update included (an update is a step that
\* ends with cacheOp naming it and is not the taking or handing back of a
\* lookup).
C9_UpdateExtends ==
    [][/\ (cacheOp'.op = "UpdateIntegrals" /\ call' = call)
            => /\ Kept(one_body, one_body')
               /\ Kept(two_body, two_body')
               /\ OneElectronKeys(valence, high') \subseteq DOMAIN one_body'
               /\ TwoElectronKeys(valence, valence, excited', high') \subseteq DOMAIN two_body'
       /\ (cacheOp'.op = "Update" /\ call' = call)
            => /\ Kept(OneElectronIntegrals, OneElectronIntegrals')
               /\ Kept(SMSIntegrals, SMSIntegrals')
               /\ Kept(TwoElectronIntegrals, TwoElectronIntegrals')
               /\ OneElectronKeys(valence, excited') \subseteq DOMAIN OneElectronIntegrals'
               /\ SMSKeys(valence, excited') \subseteq DOMAIN SMSIntegrals'
               /\ TwoElectronKeys(valence, valence, valence, excited')
                     \subseteq DOMAIN TwoElectronIntegrals']_vars

\* An update has added integrals to stores that were not empty: the excited
\* orbitals had grown since the update before.
C9_Witness ==
    /\ cacheOp.op = "UpdateIntegrals"
    /\ cacheOp.before > 0
    /\ cacheOp.before < StoredIntegrals

\* An entry of the store new that the store old lacks or holds with
\* another value.
AddsOrChanges(old, new) ==
    \E key \in DOMAIN new : key \notin DOMAIN old \/ new[key] # old[key]

\* C10: after Clear the SlaterIntegrals hold no one-electron, SMS or
\* two-electron integral, after the destructor of ValenceMBPTCalculator both
\* of its stores are empty; only the updates add or change entries, and a
\* lookup or a GetStorageSize leaves every store as it was.
C10_ClearEmptiesOnlyUpdateFills ==
    /\ [](cacheOp.op = "Clear" => /\ OneElectronIntegrals = EmptyStore
                                  /\ SMSIntegrals = EmptyStore
                                  /\ TwoElectronIntegrals = EmptyStore)
    /\ [](cacheOp.op = "Destructor" => one_body = EmptyStore /\ two_body = EmptyStore)
    /\ [][/\ (AddsOrChanges(one_body, one_body') \/ AddsOrChanges(two_body, two_body'))
               => cacheOp'.op = "UpdateIntegrals"
          /\ (\/ AddsOrChanges(OneElectronIntegrals, OneElectronIntegrals')
              \/ AddsOrChanges(SMSIntegrals, SMSIntegrals')
              \/ AddsOrChanges(TwoElectronIntegrals, TwoElectronIntegrals'))
               => cacheOp'.op = "Update"
          /\ (call'.op \in LookupOps \/ cacheOp'.op = "SlaterGetStorageSize")
               => UNCHANGED <<calculatorStores, slaterStores>>]_vars

\* Clear has run on stores that held integrals, SMS integrals among them.
C10_Witness ==
    /\ cacheOp.op = "Clear"
    /\ cacheOp.before > 0
    /\ SlaterStored = 0
    /\ StoredIntegrals > 0

----------------------------------------------------------------------------
(* Properties of the lookups of SlaterIntegrals (SpecLookup).              *)

\* C11: GetOneElectronIntegral(i, j) and GetOneElectronIntegral(j, i) resolve
\* to the same key of the one-electron store, and so hand back the same
\* stored value.
C11_OneElectronLookupSymmetric ==
    call.op = "GetOneElectronIntegral" =>
        /\ OneElectronKey(call.ext[1], call.ext[2]) = OneElectronKey(call.ext[2], call.ext[1])
        /\ call.result = Lookup(OneElectronIntegrals,
                                OneElectronKey(call.ext[2], call.ext[1]))

\* A stored integral has been asked for with the higher state index first.
C11_Witness ==
    /\ call.op = "GetOneElectronIntegral"
    /\ StateIndex(call.ext[1]) > StateIndex(call.ext[2])
    /\ call.result # <<>>

\* The state indices of the four orbitals of the lookup in call.
CallIndices == [i \in 1 .. 4 |-> StateIndex(call.ext[i])]

\* The SMS term of R_1(i1 i2, i3 i4): <i1|p|i3> <i2|p|i4>.
SMSProduct(q) ==
    RMul(IsotopeShiftIntegral(ReverseStateIndex(q[1]), ReverseStateIndex(q[3])),
         IsotopeShiftIntegral(ReverseStateIndex(q[2]), ReverseStateIndex(q[4])))

\* C12: every ordering equivalent to the one asked for is mapped by
\* TwoElectronIntegralOrdering to the same stored ordering, hence to one key
\* of the two-electron store, and GetTwoElectronIntegral hands back the value
\* stored under that key whichever of them is asked for and however often;
\* the flag the ordering reports is the sign by which the SMS term of the
\* ordering asked for differs from that of the stored ordering.
C12_EquivalentOrderingsShareOneKey ==
    call.op = "SlaterGetTwoElectronIntegral" =>
        /\ \A p \in EquivalentOrderings(CallIndices) :
              /\ TwoElectronIntegralOrdering(p) = TwoElectronIntegralOrdering(CallIndices)
              /\ call.result = Lookup(TwoElectronIntegrals,
                                      PackKey(call.k, TwoElectronIntegralOrdering(p)))
        /\ SMSProduct(CallIndices) =
              (IF SMSSignKept(CallIndices)
               THEN SMSProduct(TwoElectronIntegralOrdering(CallIndices))
               ELSE RNeg(SMSProduct(TwoElectronIntegralOrdering(CallIndices))))

\* A stored integral has been asked for in an ordering that is not the
\* stored one and whose nonzero SMS term needs its sign changed.
C12_Witness ==
    /\ call.op = "SlaterGetTwoElectronIntegral"
    /\ call.result # <<>>
    /\ TwoElectronIntegralOrdering(CallIndices) # CallIndices
    /\ ~SMSSignKept(CallIndices)
    /\ ~RIsZero(SMSProduct(CallIndices))
    /\ call.k = 1

----------------------------------------------------------------------------
(* Further properties of the perturbation engine (Spec).                   *)

\* The values a `k += 2' loop from kmin(a, b) to kmax(a, b) takes.
KSet(a, b) ==
    LET ks == KLoop(kmin(a, b), kmax(a, b))
    IN  {ks[i] : i \in 1 .. Len(ks)}

\* The pairs (alpha, beta) of excited orbitals for which the box sum does
\* anything for the external lines sa, sb, sc, sd.
BoxPairs(sa, sb, sc, sd) ==
    {p \in excited \X excited :
        /\ PQN(p[1]) >= QSpaceCutoff \/ PQN(p[2]) >= QSpaceCutoff
        /\ (L(sa) + L(p[1])) % 2 = (L(sb) + L(p[2])) % 2
        /\ (L(p[1]) + L(sc)) % 2 = (L(p[2]) + L(sd)) % 2}

\* The multipoles k1 of a pair for which the box sum fetches R1.
BoxK1s(sa, sb, salpha, sbeta) ==
    {k1 \in KSet(sa, salpha) :
        ~RIsZero(RMul(Electron3j(TwoJ(sa), TwoJ(salpha), k1),
                      Electron3j(TwoJ(sb), TwoJ(sbeta), k1)))}

\* The multipoles k2 of a pair and a k1 for which the box sum fetches R2 and
\* adds the term R1 * R2 * coeff.
BoxK2s(k, k1, sa, sb, sc, sd, salpha, sbeta) ==
    {k2 \in KSet(salpha, sc) :
        /\ ~RIsZero(RMul(Electron3j(TwoJ(salpha), TwoJ(sc), k2),
                         Electron3j(TwoJ(sbeta), TwoJ(sd), k2)))
        /\ ~RIsZero(Wigner6j(TwoJ(sc), TwoJ(sa), 2 * k, 2 * k1, 2 * k2, TwoJ(salpha)))
        /\ ~RIsZero(Wigner6j(TwoJ(sd), TwoJ(sb), 2 * k, 2 * k1, 2 * k2, TwoJ(sbeta)))}

\* The terms <<alpha, beta, k1, k2>> the box sum adds for the multipole k
\* and the external lines sa, sb, sc, sd.
BoxTerms(k, sa, sb, sc, sd) ==
    IF OuterCoefficientZero(sa, sb, sc, sd, k) THEN {}
    ELSE UNION {UNION {{<<p[1], p[2], k1, k2>> :
                           k2 \in BoxK2s(k, k1, sa, sb, sc, sd, p[1], p[2])} :
                       k1 \in BoxK1s(sa, sb, p[1], p[2])} :
                p \in BoxPairs(sa, sb, sc, sd)}

OneBodyStored(s1, s2) == OneElectronKey(s1, s2) \in DOMAIN one_body
TwoBodyStored(k, s1, s2, s3, s4) == TwoElectronKey(k, s1, s2, s3, s4) \in DOMAIN two_body

\* A term of the sum of the call is built from an integral that is not stored.
UsesAbsentIntegral ==
    LET sa == call.ext[1]
        sb == call.ext[2]
    IN  CASE call.op = "GetOneElectronSubtraction" ->
               /\ Kappa(sa) = Kappa(sb)
               /\ \E x \in high :
                     /\ InQSpace(x) /\ Kappa(sa) = Kappa(x)
                     /\ ~OneBodyStored(sa, x) \/ ~OneBodyStored(x, sb)
          [] call.op \in {"MBPTGetTwoElectronValence", "MBPTGetTwoElectronBoxValence"} ->
               \E t \in BoxTerms(call.k, sa, sb, call.ext[3], call.ext[4]) :
                  \/ ~TwoBodyStored(t[3], sa, sb, t[1], t[2])
                  \/ ~TwoBodyStored(t[4], t[1], t[2], call.ext[3], call.ext[4])
          [] call.op = "GetTwoElectronSubtraction" ->
               LET sc == call.ext[3]
                   sd == call.ext[4]
                   k == call.k
               IN  \E x \in high :
                      /\ InQSpace(x)
                      /\ \/ /\ Kappa(sa) = Kappa(x)
                            /\ ~TwoBodyStored(k, x, sb, sc, sd) \/ ~OneBodyStored(sa, x)
                         \/ /\ Kappa(sc) = Kappa(x)
                            /\ ~TwoBodyStored(k, sa, sb, x, sd) \/ ~OneBodyStored(x, sc)
                         \/ /\ Kappa(sb) = Kappa(x)
                            /\ ~TwoBodyStored(k, sa, x, sc, sd) \/ ~OneBodyStored(sb, x)
                         \/ /\ Kappa(sd) = Kappa(x)
                            /\ ~TwoBodyStored(k, sa, sb, sc, x) \/ ~OneBodyStored(x, sd)
          [] OTHER -> FALSE

StoreSumOps ==
    {"GetOneElectronSubtraction", "MBPTGetTwoElectronValence",
     "MBPTGetTwoElectronBoxValence", "GetTwoElectronSubtraction"}

Intermediates == IF call.op = "GetOneElectronValence" THEN excited ELSE high

\* The intermediate orbitals that qualify for the one-body sum of the call:
\* the kappa of the external lines and a pqn at or above the cutoff.
Qualifying ==
    {n \in Intermediates : Kappa(n) = Kappa(call.ext[1]) /\ PQN(n) >= QSpaceCutoff}

\* me(ext1, n) * me(n, ext2) / (ValenceEnergy(kappa) - E(n) + delta)
OneBodyTerm(n) ==
    RDiv(RMul(HamiltonianMatrixElement(call.ext[1], n),
              HamiltonianMatrixElement(n, call.ext[2])),
         RAdd(RSub(ValenceEnergies[Kappa(call.ext[1])], Energy(n)), delta))

\* The evaluation in call is a one-body correction between orbitals of one
\* kappa whose matrix elements are at hand.
OneBodySumCall ==
    /\ call.op \in OneBodyOps
    /\ Kappa(call.ext[1]) = Kappa(call.ext[2])
    /\ call.op = "GetOneElectronSubtraction" => IntegralsStored

\* C15: a one-body correction between orbitals of one kappa is the sum, over
\* exactly the intermediate orbitals of that kappa with pqn at or above the
\* cutoff, of me(ext1, n) * me(n, ext2) / (ValenceEnergy - E(n) + delta);
\* every orbital of the map is visited once, and matrix elements are
\* fetched for the qualifying ones only, two for each.
C15_OneBodySumOverQualifying ==
    OneBodySumCall =>
        LET qs == OrbitalSeq(Qualifying)
        IN  /\ call.result.energy = RSumSeq([i \in 1 .. Len(qs) |-> OneBodyTerm(qs[i])])
            /\ call.result.visited = Cardinality(Intermediates)
            /\ call.result.me = 2 * Cardinality(Qualifying)

\* A one-body correction has summed over two qualifying intermediate
\* orbitals and has passed over others.
C15_Witness ==
    /\ OneBodySumCall
    /\ Cardinality(Qualifying) >= 2
    /\ Intermediates \ Qualifying # {}
    /\ call.result.energy # RZero

\* The external lines of the evaluation in call.
ExtA == call.ext[1]
ExtB == call.ext[2]
ExtC == call.ext[3]
ExtD == call.ext[4]

\* The evaluations of the box sum alone.
BoxOps ==
    {"GetTwoElectronBoxValence", "MBPTGetTwoElectronValence", "MBPTGetTwoElectronBoxValence"}

\* The evaluation in call is a box sum that has run: the outer coefficients
\* are nonzero and, for the sum over the stores, the integrals are at hand.
BoxSumCall ==
    /\ call.op \in BoxOps
    /\ ~OuterCoefficientZero(ExtA, ExtB, ExtC, ExtD, call.k)
    /\ call.op # "GetTwoElectronBoxValence" => IntegralsStored

\* R1 = R_k1(ab, alpha beta) and R2 = R_k2(alpha beta, cd) of the term
\* t = <<alpha, beta, k1, k2>>, integrated or fetched as the call does.
BoxR1(t) ==
    IF call.op = "GetTwoElectronBoxValence"
    THEN WithIsotopeShift(RadialIntegral(t[3], ExtA, ExtB, t[1], t[2]), call.nim, t[3],
                          IsotopeShiftIntegral(t[1], ExtA), IsotopeShiftIntegral(t[2], ExtB))
    ELSE GetTwoElectronIntegral(t[3], ExtA, ExtB, t[1], t[2])

BoxR2(t) ==
    IF call.op = "GetTwoElectronBoxValence"
    THEN WithIsotopeShift(RadialIntegral(t[4], t[1], t[2], ExtC, ExtD), call.nim, t[4],
                          IsotopeShiftIntegral(t[1], ExtC), IsotopeShiftIntegral(t[2], ExtD))
    ELSE GetTwoElectronIntegral(t[4], t[1], t[2], ExtC, ExtD)

\* (-1)^((2Ja + 2Jb + 2Jc + 2Jd + 2Jalpha + 2Jbeta)/2 + k + 1) * (-1)^(k1 + k2)
BoxSign(t) ==
    LET e == (TwoJ(ExtA) + TwoJ(ExtB) + TwoJ(ExtC) + TwoJ(ExtD) + TwoJ(t[1]) + TwoJ(t[2])) \div 2
                + call.k + 1 + t[3] + t[4]
    IN  IF e % 2 = 0 THEN 1 ELSE -1

\* (2Jalpha + 1)(2Jbeta + 1)(2k + 1) / (coeff_ac * coeff_bd)
BoxWeight(t) ==
    RDiv(RInt((TwoJ(t[1]) + 1) * (TwoJ(t[2]) + 1) * (2 * call.k + 1)),
         RMul(Electron3j(TwoJ(ExtA), TwoJ(ExtC), call.k),
              Electron3j(TwoJ(ExtB), TwoJ(ExtD), call.k)))

\* The 3j and 6j coefficients of the term.
BoxAngular(t) ==
    RMul(RMul(RMul(Electron3j(TwoJ(ExtA), TwoJ(t[1]), t[3]),
                   Electron3j(TwoJ(ExtB), TwoJ(t[2]), t[3])),
              RMul(Electron3j(TwoJ(t[1]), TwoJ(ExtC), t[4]),
                   Electron3j(TwoJ(t[2]), TwoJ(ExtD), t[4]))),
         RMul(Wigner6j(TwoJ(ExtC), TwoJ(ExtA), 2 * call.k, 2 * t[3], 2 * t[4], TwoJ(t[1])),
              Wigner6j(TwoJ(ExtD), TwoJ(ExtB), 2 * call.k, 2 * t[3], 2 * t[4], TwoJ(t[2]))))

\* ValenceEnergy(a) + ValenceEnergy(b) - E_alpha - E_beta
BoxEnergyGap(salpha, sbeta) ==
    RSub(RSub(RAdd(ValenceEnergies[Kappa(ExtA)], ValenceEnergies[Kappa(ExtB)]),
              Energy(salpha)), Energy(sbeta))

\* The term R1 * R2 * coeff of t over the denominator denom.
BoxTermValue(t, denom) ==
    RMul(RMul(RInt(BoxSign(t)), RDiv(RMul(BoxWeight(t), BoxAngular(t)), denom)),
         RMul(BoxR1(t), BoxR2(t)))

\* The terms of the pair (alpha, beta) over the denominator denom, summed.
BoxPairValue(salpha, sbeta, denom) ==
    LET k1s == KLoop(kmin(ExtA, salpha), kmax(ExtA, salpha))
        k2s == KLoop(kmin(salpha, ExtC), kmax(salpha, ExtC))
        Inner(k1) ==
            RSumSeq([j \in 1 .. Len(k2s) |->
                        IF k2s[j] \in BoxK2s(call.k, k1, ExtA, ExtB, ExtC, ExtD, salpha, sbeta)
                        THEN BoxTermValue(<<salpha, sbeta, k1, k2s[j]>>, denom)
                        ELSE RZero])
    IN  RSumSeq([i \in 1 .. Len(k1s) |->
                    IF k1s[i] \in BoxK1s(ExtA, ExtB, salpha, sbeta)
                    THEN Inner(k1s[i]) ELSE RZero])

\* The box sum of the call: the terms of the pairs of BoxPairs, each over
\* its denominator ValenceEnergy - E_alpha - E_beta + delta.
BoxValue ==
    LET es == OrbitalSeq(excited)
        Pair(salpha, sbeta) ==
            IF <<salpha, sbeta>> \in BoxPairs(ExtA, ExtB, ExtC, ExtD)
            THEN BoxPairValue(salpha, sbeta, RAdd(BoxEnergyGap(salpha, sbeta), delta))
            ELSE RZero
    IN  RSumSeq([i \in 1 .. Len(es) |->
                    RSumSeq([j \in 1 .. Len(es) |-> Pair(es[i], es[j])])])

\* What the sum over the stores adds for the pair (alpha, beta).
BoxPairOfCall(salpha, sbeta) ==
    BoxPairSum(call.k, ExtA, ExtB, ExtC, ExtD, salpha, sbeta,
               Electron3j(TwoJ(ExtA), TwoJ(ExtC), call.k),
               Electron3j(TwoJ(ExtB), TwoJ(ExtD), call.k),
               RAdd(ValenceEnergies[Kappa(ExtA)], ValenceEnergies[Kappa(ExtB)]))

\* The qualifying intermediate orbitals and the pairs that are exactly
\* degenerate with the valence reference energy.
DegenerateOrbitals ==
    {n \in Qualifying : Energy(n) = ValenceEnergies[Kappa(ExtA)]}
DegeneratePairs ==
    {p \in BoxPairs(ExtA, ExtB, ExtC, ExtD) : BoxEnergyGap(p[1], p[2]) = RZero}

\* The term of the one-body sum for n over the denominator denom.
OneBodyTermOver(n, denom) ==
    RDiv(RMul(HamiltonianMatrixElement(ExtA, n), HamiltonianMatrixElement(n, ExtB)), denom)

\* C16: the denominator of a term is ValenceEnergy - E_intermediate + delta,
\* in the box sum ValenceEnergy(a) + ValenceEnergy(b) - E_alpha - E_beta +
\* delta; a term whose intermediate energy equals the valence reference
\* energy is the same expression over delta exactly, and the energy returned
\* is a number.
C16_DegenerateDenominatorIsDelta ==
    /\ OneBodySumCall =>
          LET qs == OrbitalSeq(Qualifying)
          IN  /\ call.result.energy =
                    RSumSeq([i \in 1 .. Len(qs) |->
                                OneBodyTermOver(qs[i],
                                    IF qs[i] \in DegenerateOrbitals THEN delta
                                    ELSE RAdd(RSub(ValenceEnergies[Kappa(ExtA)],
                                                   Energy(qs[i])), delta))])
              /\ Finite(call.result.energy)
    /\ BoxSumCall =>
          /\ Finite(call.result.energy)
          /\ call.op # "GetTwoElectronBoxValence" =>
                \A p \in DegeneratePairs :
                   BoxPairOfCall(p[1], p[2]).energy = BoxPairValue(p[1], p[2], delta)

\* A one-body sum has had an intermediate orbital exactly degenerate with
\* the valence energy and has not vanished.
C16_Witness ==
    /\ OneBodySumCall
    /\ DegenerateOrbitals # {}
    /\ call.result.energy # RZero

\* What the box sum of the call does for the pair (alpha, beta): the body
\* of the two loops over the excited orbitals.
PairOfCall(salpha, sbeta) ==
    IF call.op = "GetTwoElectronBoxValence"
    THEN Box1PairSum(call.k, ExtA, ExtB, ExtC, ExtD, salpha, sbeta,
                     Electron3j(TwoJ(ExtA), TwoJ(ExtC), call.k),
                     Electron3j(TwoJ(ExtB), TwoJ(ExtD), call.k),
                     RAdd(ValenceEnergies[Kappa(ExtA)], ValenceEnergies[Kappa(ExtB)]),
                     call.nim)
    ELSE BoxPairOfCall(salpha, sbeta)

\* The energies of the pairs of BoxPairs alone, summed.
QualifyingPairsEnergy ==
    LET es == OrbitalSeq(excited)
        Pair(salpha, sbeta) ==
            IF <<salpha, sbeta>> \in BoxPairs(ExtA, ExtB, ExtC, ExtD)
            THEN PairOfCall(salpha, sbeta).energy ELSE RZero
    IN  RSumSeq([i \in 1 .. Len(es) |->
                    RSumSeq([j \in 1 .. Len(es) |-> Pair(es[i], es[j])])])

\* C18: in the box sum a pair (alpha, beta) of excited orbitals contributes
\* only if both outer coefficients are nonzero, (La + Lalpha) and
\* (Lb + Lbeta) have the same parity, (Lalpha + Lc) and (Lbeta + Ld) have
\* the same parity and alpha or beta is in Q-space; with a zero outer
\* coefficient no pair is visited and the sum is exactly 0, and otherwise a
\* pair that fails a condition adds exactly nothing and costs no integral,
\* so that the sum is the sum over the pairs passing all of them.
C18_OnlyQualifyingPairsContribute ==
    /\ (call.op \in BoxOps /\ OuterCoefficientZero(ExtA, ExtB, ExtC, ExtD, call.k)) =>
          call.result.energy = RZero /\ call.result.visited = 0
    /\ BoxSumCall =>
          /\ \A p \in (excited \X excited) \ BoxPairs(ExtA, ExtB, ExtC, ExtD) :
                /\ PairOfCall(p[1], p[2]).energy = RZero
                /\ PairOfCall(p[1], p[2]).ri = 0
          /\ call.result.energy = QualifyingPairsEnergy
          /\ call.result.visited = Cardinality(excited) * Cardinality(excited)

\* A box sum has passed over a pair outside Q-space and a pair of the wrong
\* parity, and a pair passing all conditions has contributed.
C18_Witness ==
    /\ BoxSumCall
    /\ \E p \in excited \X excited :
          PQN(p[1]) < QSpaceCutoff /\ PQN(p[2]) < QSpaceCutoff
    /\ \E p \in excited \X excited :
          /\ PQN(p[1]) >= QSpaceCutoff
          /\ (L(ExtA) + L(p[1])) % 2 # (L(ExtB) + L(p[2])) % 2
    /\ \E p \in BoxPairs(ExtA, ExtB, ExtC, ExtD) : PairOfCall(p[1], p[2]).energy # RZero
    /\ call.result.energy # RZero

\* The fetches of R1 of the box sum: one for each k1 of a pair with a
\* nonzero coeff_ab.
BoxR1Fetches(k, sa, sb, sc, sd) ==
    IF OuterCoefficientZero(sa, sb, sc, sd, k) THEN {}
    ELSE UNION {{<<p[1], p[2], k1>> : k1 \in BoxK1s(sa, sb, p[1], p[2])} :
                p \in BoxPairs(sa, sb, sc, sd)}

\* C19: the box sum fetches or integrates a radial integral only for the
\* terms that survive the pruning: R1 once for each k1 of a qualifying pair
\* whose coeff_ab is nonzero, R2 once for each k2 whose 3j and 6j
\* coefficients are all nonzero, and none for a zero outer coefficient, a
\* failed parity match or a pair outside Q-space.
C19_PrunedTermsCostNoIntegral ==
    call.op \in BoxOps /\ ValenceEnergiesSet =>
        call.result.ri =
            Cardinality(BoxR1Fetches(call.k, ExtA, ExtB, ExtC, ExtD))
                + Cardinality(BoxTerms(call.k, ExtA, ExtB, ExtC, ExtD))

\* A box sum over the stores has fetched R1 for a k1 for which it then found
\* no k2 to fetch R2 for, next to terms for which it fetched both.
C19_Witness ==
    /\ call.op = "MBPTGetTwoElectronBoxValence"
    /\ IntegralsStored
    /\ BoxTerms(call.k, ExtA, ExtB, ExtC, ExtD) # {}
    /\ \E f \in BoxR1Fetches(call.k, ExtA, ExtB, ExtC, ExtD) :
          \A t \in BoxTerms(call.k, ExtA, ExtB, ExtC, ExtD) :
             <<t[1], t[2], t[3]>> # f
    /\ call.result.ri > 0

\* C20: every term R1 * R2 * coeff of the box sum carries the sign
\* (-1)^((2Ja + 2Jb + 2Jc + 2Jd + 2Jalpha + 2Jbeta)/2 + k + 1) * (-1)^(k1 + k2)
\* and the weight (2Jalpha + 1)(2Jbeta + 1)(2k + 1) / (coeff_ac * coeff_bd),
\* in ValenceCalculator::CalculateTwoElectronValence1 and in
\* ValenceMBPTCalculator::CalculateTwoElectronValence alike: each returns
\* the sum of the terms so signed and weighted, and without an isotope shift
\* the two return the same energy, pair by pair.
C20_BoxSignAndWeight ==
    BoxSumCall =>
        /\ call.result.energy = BoxValue
        /\ (call.op = "GetTwoElectronBoxValence" /\ call.nim = 0 /\ IntegralsStored) =>
              /\ call.result.energy =
                    CalculateTwoElectronValence(call.k, ExtA, ExtB, ExtC, ExtD).energy
              /\ \A p \in BoxPairs(ExtA, ExtB, ExtC, ExtD) :
                    PairOfCall(p[1], p[2]).energy = BoxPairOfCall(p[1], p[2]).energy

\* Both box sums have added terms of either sign.
C20_Witness ==
    /\ BoxSumCall
    /\ call.op = "GetTwoElectronBoxValence" /\ call.nim = 0 /\ IntegralsStored
    /\ \E t \in BoxTerms(call.k, ExtA, ExtB, ExtC, ExtD) : BoxSign(t) = 1
    /\ \E t \in BoxTerms(call.k, ExtA, ExtB, ExtC, ExtD) : BoxSign(t) = -1
    /\ \E t \in BoxTerms(call.k, ExtA, ExtB, ExtC, ExtD) : (t[3] + t[4]) % 2 = 1
    /\ call.result.energy # RZero

\* NuclearInverseMass * <p1> * <p2> for an integral of the given multipole
\* of the call, and 0 where no cross term is due.
CrossTerm(multipole, p1, p2) ==
    IF call.nim # 0 /\ multipole = 1
    THEN RMul(RInt(call.nim), RMul(p1, p2))
    ELSE RZero

\* No term of the box sum of the call has k1 = 1 or k2 = 1.
NoUnitMultipole ==
    \A t \in BoxTerms(call.k, ExtA, ExtB, ExtC, ExtD) : t[3] # 1 /\ t[4] # 1

\* One term of the subtraction sum: the radial integral R with the excited
\* orbital s3 in the place of the line ext.
SubtractionTerm(ext, s3, R) ==
    IF PQN(s3) >= QSpaceCutoff /\ Kappa(s3) = Kappa(ext)
    THEN RDiv(RMul(R, HamiltonianMatrixElement(ext, s3)),
              RAdd(RSub(ValenceEnergies[Kappa(ext)], Energy(s3)), delta))
    ELSE RZero

\* The subtraction sum of ValenceCalculator for the call, every radial
\* integral with the cross term of the multipole k.
SubtractionValue ==
    LET s3s == OrbitalSeq(excited)
        pbd == IsotopeShiftIntegral(ExtB, ExtD)
        pac == IsotopeShiftIntegral(ExtA, ExtC)
        Lines(s3) == <<
            SubtractionTerm(ExtA, s3,
                RSub(RadialIntegral(call.k, s3, ExtB, ExtC, ExtD),
                     CrossTerm(call.k, pbd, IsotopeShiftIntegral(s3, ExtC)))),
            SubtractionTerm(ExtC, s3,
                RAdd(RadialIntegral(call.k, ExtA, ExtB, s3, ExtD),
                     CrossTerm(call.k, pbd, IsotopeShiftIntegral(s3, ExtA)))),
            SubtractionTerm(ExtB, s3,
                RSub(RadialIntegral(call.k, ExtA, s3, ExtC, ExtD),
                     CrossTerm(call.k, pac, IsotopeShiftIntegral(s3, ExtD)))),
            SubtractionTerm(ExtD, s3,
                RAdd(RadialIntegral(call.k, ExtA, ExtB, ExtC, s3),
                     CrossTerm(call.k, pac, IsotopeShiftIntegral(s3, ExtB)))) >>
    IN  RSumSeq([i \in 1 .. Len(s3s) |-> RSumSeq(Lines(s3s[i]))])

\* C21: in ValenceCalculator a radial integral carries the isotope-shift
\* cross term NuclearInverseMass * <p> * <p> if and only if
\* NuclearInverseMass is nonzero and the multipole of that integral is 1
\* (k1 for R1, k2 for R2, k for the subtraction terms); otherwise it is the
\* pure Coulomb integral, so that a sum none of whose integrals has
\* multipole 1 returns what it returns with no isotope shift at all.
C21_IsotopeShiftOnlyForMultipoleOne ==
    /\ (call.op = "GetTwoElectronBoxValence" /\ BoxSumCall) =>
          /\ \A t \in BoxTerms(call.k, ExtA, ExtB, ExtC, ExtD) :
                /\ BoxR1(t) = RSub(RadialIntegral(t[3], ExtA, ExtB, t[1], t[2]),
                                   CrossTerm(t[3], IsotopeShiftIntegral(t[1], ExtA),
                                             IsotopeShiftIntegral(t[2], ExtB)))
                /\ BoxR2(t) = RSub(RadialIntegral(t[4], t[1], t[2], ExtC, ExtD),
                                   CrossTerm(t[4], IsotopeShiftIntegral(t[1], ExtC),
                                             IsotopeShiftIntegral(t[2], ExtD)))
          /\ call.result.energy = BoxValue
          /\ (call.nim = 0 \/ NoUnitMultipole) =>
                call.result.energy =
                    GetTwoElectronBoxValence(ExtA, ExtB, ExtC, ExtD, call.k, 0).energy
    /\ call.op = "GetTwoElectronValence" =>
          /\ call.result.energy =
                RAdd(CalculateTwoElectronValence1(ExtA, ExtB, ExtC, ExtD,
                                                  call.k, call.nim).energy,
                     SubtractionValue)
          /\ (call.nim = 0 \/ (call.k # 1 /\ NoUnitMultipole)) =>
                call.result.energy =
                    GetTwoElectronValence(ExtA, ExtB, ExtC, ExtD, call.k, 0).energy

\* A box sum with the isotope shift switched on has had an integral of
\* multipole 1 with a nonzero cross term next to one of another multipole,
\* and returns another energy than without the isotope shift.
C21_Witness ==
    /\ call.op = "GetTwoElectronBoxValence"
    /\ BoxSumCall
    /\ call.nim # 0
    /\ \E t \in BoxTerms(call.k, ExtA, ExtB, ExtC, ExtD) :
          /\ t[3] = 1
          /\ CrossTerm(1, IsotopeShiftIntegral(t[1], ExtA),
                       IsotopeShiftIntegral(t[2], ExtB)) # RZero
    /\ \E t \in BoxTerms(call.k, ExtA, ExtB, ExtC, ExtD) : t[3] # 1
    /\ call.result.energy #
          GetTwoElectronBoxValence(ExtA, ExtB, ExtC, ExtD, call.k, 0).energy

\* The evaluation in call is the subtraction sum over the stores, and the
\* integrals it needs are at hand.
SubtractionSumCall == call.op = "GetTwoElectronSubtraction" /\ IntegralsStored

\* The intermediate salpha contributes a term for the external line (1 for
\* a, 2 for b, 3 for c, 4 for d): it is in Q-space and has the kappa of the
\* line.
ContributesToLine(salpha, line) ==
    InQSpace(salpha) /\ Kappa(call.ext[line]) = Kappa(salpha)

\* The lines the intermediate salpha contributes a term for.
LinesOf(salpha) == {line \in 1 .. 4 : ContributesToLine(salpha, line)}

\* The term of salpha for the line: R_k with salpha in the place of that
\* line alone, times the matrix element between the line and salpha, over
\* (ValenceEnergy of the kappa of the line - E_alpha + delta).
LineTerm(salpha, line) ==
    LET s == [call.ext EXCEPT ![line] = salpha]
        R1 == GetTwoElectronIntegral(call.k, s[1], s[2], s[3], s[4])
        me == IF line \in {1, 2}
              THEN HamiltonianMatrixElement(call.ext[line], salpha)
              ELSE HamiltonianMatrixElement(salpha, call.ext[line])
    IN  RDiv(RMul(R1, me),
             RAdd(RSub(ValenceEnergies[Kappa(call.ext[line])], Energy(salpha)), delta))

----------------------------------------------------------------------------
(* Further properties of SlaterIntegrals (SpecLookup).                     *)

\* The stored ordering of the indices of the call.
StoredOrdering == TwoElectronIntegralOrdering(CallIndices)

\* C14: the state index Update builds covers the core and the excited
\* orbitals, gives every core orbital a lower index than every excited
\* orbital and numbers the excited orbitals in non-decreasing pqn; a lookup,
\* and with it TwoElectronIntegralOrdering, changes neither the index nor a
\* store, and the ordering applied to a stored ordering gives it back with
\* the SMS sign kept.
C14_StateIndexOrderAndPureOrdering ==
    /\ [](/\ cacheOp.op = "Update" => DOMAIN state_index = core \cup excited
          /\ \A c \in core \cap DOMAIN state_index, e \in DOMAIN state_index \ core :
                state_index[c] < state_index[e]
          /\ \A e1 \in DOMAIN state_index \ core, e2 \in DOMAIN state_index \ core :
                state_index[e1] <= state_index[e2] => PQN(e1) <= PQN(e2)
          /\ call.op = "SlaterGetTwoElectronIntegral" =>
                /\ TwoElectronIntegralOrdering(StoredOrdering) = StoredOrdering
                /\ SMSSignKept(StoredOrdering))
    /\ [][call'.op = "SlaterGetTwoElectronIntegral" =>
             UNCHANGED <<slaterStores, state_index, cacheOp>>]_vars

\* The index has been built over a basis with an excited orbital whose key
\* sorts before a core orbital, and an integral has been asked for in an
\* ordering that is not the stored one.
C14_Witness ==
    /\ DOMAIN state_index = core \cup excited
    /\ \E c \in core, e \in excited : OrbitalLess(e, c)
    /\ Cardinality({PQN(e) : e \in excited}) > 2
    /\ call.op = "SlaterGetTwoElectronIntegral"
    /\ StoredOrdering # CallIndices

----------------------------------------------------------------------------
(* Properties of OrbitalInfo and Orbital (SpecOrbital).                    *)

\* The OrbitalInfo or Orbital at hand.
Object == call.ext[1]

\* C17: for an OrbitalInfo of nonzero kappa, TwoJ is 2|kappa| - 1 and twice
\* J = |kappa| - 1/2, MaxNumElectrons is 2|kappa| = TwoJ + 1, L is kappa for
\* kappa > 0 and -kappa - 1 otherwise, and L_Prime differs from L by exactly
\* 1; an Orbital just constructed has occupancy 2|kappa|; and no accessor of
\* an OrbitalInfo changes its pqn or its kappa, which it returns as they
\* were given to the constructor.
C17_OrbitalInfoDerivedQuantities ==
    /\ [](/\ call.op = "TwoJ" =>
                /\ call.result = 2 * Abs(Object.kappa) - 1
                /\ RInt(call.result) = RMul(RInt(2), J(Object))
          /\ call.op = "J" => call.result = Rat(2 * Abs(Object.kappa) - 1, 2)
          /\ call.op = "MaxNumElectrons" =>
                /\ call.result = 2 * Abs(Object.kappa)
                /\ call.result = TwoJ(Object) + 1
          /\ call.op = "L" =>
                call.result = (IF Object.kappa > 0 THEN Object.kappa ELSE -Object.kappa - 1)
          /\ call.op = "L_Prime" => Abs(call.result - L(Object)) = 1
          /\ call.op = "PQN" => call.result = Object.pqn
          /\ call.op = "Kappa" => call.result = Object.kappa
          /\ call.op = "Orbital" => call.result.occupancy = 2 * Abs(Object.kappa))
    /\ [][call.op \in InfoOps /\ call'.op \in InfoOps \ {"OrbitalInfo"} =>
             call'.ext = call.ext]_vars

\* L_Prime has been asked of an OrbitalInfo of positive kappa, for which it
\* is the smaller of the two.
C17_Witness ==
    /\ call.op = "L_Prime"
    /\ Object.kappa > 1
    /\ call.result = L(Object) - 1

----------------------------------------------------------------------------
(* Further properties of the BruecknerDecorator (SpecBrueckner, SpecODE).  *)

\* The queries that hand a wavefunction to CalculateExtraNonlocal.
NonlocalOps == {"ApplyTo", "GetExchange"}

\* The wavefunction of the query in call, as it is after the query, and the
\* potential stored for its kappa.
Wavefunction == call.a
StoredSigma == sigmas[call.kappa]

\* The query in call found a potential for the kappa of its wavefunction.
ComputedChannelQuery == call.op \in NonlocalOps /\ call.kappa \in DOMAIN sigmas

\* The potential applied to the array x of the wavefunction: over the
\* points of the potential, its matrix on the points x has; nothing beyond.
AppliedAt(x, i) ==
    IF i <= StoredSigma.size
    THEN RMul(StoredSigma.content,
              RSumSeq([j \in 1 .. (IF Len(x) < StoredSigma.size THEN Len(x)
                                   ELSE StoredSigma.size) |-> x[j]]))
    ELSE RZero

\* The array x of the wavefunction at the point i, zero beyond its size.
PaddedAt(x, i) == IF i <= Len(x) THEN x[i] ELSE RZero

\* C22: CalculateExtraNonlocal applies the potential stored for s.Kappa()
\* to a copy of s zero-padded to the size of the potential when s is
\* shorter, so that the term has the size of the potential and s is as it
\* was; when s is at least as long it applies the potential to s as it is,
\* the term has the size of s and is zero beyond the potential; and in
\* neither case is the potential or the map changed.
C22_ShortWavefunctionIsPaddedNotThePotential ==
    /\ [](ComputedChannelQuery =>
            LET ret == call.ret[1]
                n == Larger(Size(Wavefunction), StoredSigma.size)
            IN  /\ Wavefunction \in Approximations
                /\ Size(ret) = n
                /\ Len(ret.g) = n /\ Len(ret.dfdr) = n /\ Len(ret.dgdr) = n
                /\ call.op = "ApplyTo" =>
                      \A i \in 1 .. n :
                         /\ ret.f[i] = RAdd(RMul(PaddedAt(Wavefunction.f, i), RInt(2)),
                                            RMul(lambda, AppliedAt(Wavefunction.f, i)))
                         /\ ret.g[i] = RAdd(RMul(PaddedAt(Wavefunction.g, i), RInt(2)),
                                            RMul(lambda, AppliedAt(Wavefunction.g, i)))
                /\ call.op = "GetExchange" =>
                      \A i \in 1 .. n :
                         /\ ret.f[i] = RSub(IF i <= Size(Wavefunction) THEN RInt(2) ELSE RZero,
                                            RMul(lambda, AppliedAt(Wavefunction.f, i)))
                         /\ ret.g[i] = RSub(IF i <= Size(Wavefunction) THEN RInt(3) ELSE RZero,
                                            RMul(lambda, AppliedAt(Wavefunction.g, i))))
    /\ [][call'.op \in NonlocalOps => sigmas' = sigmas]_vars

\* ApplyTo has been given a wavefunction shorter than the potential of its
\* kappa: what it returns has the size of the potential and is not zero
\* beyond the size of the wavefunction.
C22_Witness ==
    /\ ComputedChannelQuery
    /\ call.op = "ApplyTo"
    /\ Size(Wavefunction) < StoredSigma.size
    /\ Size(call.ret[1]) = StoredSigma.size
    /\ call.ret[1].f[StoredSigma.size] # RZero

\* The smaller of two sizes.
Smaller(m, n) == IF m <= n THEN m ELSE n

\* C23: Alert never grows anything: after it the size of
\* currentExchangePotential is the smaller of its size before and the size
\* of the lattice, the points it keeps are as they were, and neither the
\* sigma map nor the size of a stored sigma potential has changed.
C23_AlertNeverGrows ==
    [][(Alert \/ LatticeGrows) =>
          /\ Size(currentExchangePotential') =
                Smaller(Size(currentExchangePotential), latticeSize')
          /\ \A i \in 1 .. Size(currentExchangePotential') :
                /\ currentExchangePotential'.f[i] = currentExchangePotential.f[i]
                /\ currentExchangePotential'.g[i] = currentExchangePotential.g[i]
          /\ currentExchangePotential'.kappa = currentExchangePotential.kappa
          /\ sigmas' = sigmas
          /\ \A kap \in DOMAIN sigmas : sigmas'[kap].size = sigmas[kap].size]_vars

\* Alert has cut a potential set for the long wavefunction down to the
\* lattice, which is smaller than the sigma potential it came from.
C23_Witness ==
    /\ lastOp.op = "Alert"
    /\ currentExchangePotential.kappa = 1
    /\ Size(currentExchangePotential) = latticeSize
    /\ latticeSize < MaxSize + 1
    /\ 1 \in DOMAIN sigmas

\* The query in call found no potential for the kappa of its wavefunction.
UncomputedChannelQuery == call.op \in NonlocalOps /\ call.kappa \notin DOMAIN sigmas

\* The extra term of the query in call at the point i of the array x of its
\* wavefunction: the stored potential applied to x, times -lambda.
ExtraNonlocalAt(x, i) == RMul(RNeg(lambda), AppliedAt(x, i))

\* C27: for a wavefunction whose kappa has no potential in the map the
\* decorator is transparent: ApplyTo(a) is the wrapped ApplyTo(a) and
\* GetExchange(approximation) the wrapped GetExchange(approximation).  For
\* a kappa with a potential ApplyTo subtracts, and GetExchange adds, the
\* stored potential applied to the wavefunction times -lambda; lambda is 1.
C27_TransparentWithoutPotential ==
    /\ lambda = RInt(1)
    /\ UncomputedChannelQuery =>
          /\ call.op = "ApplyTo" => call.ret[1] = WrappedApplyTo(Wavefunction)
          /\ call.op = "GetExchange" =>
                call.ret[1] = WrappedGetExchange(call.kappa, Size(Wavefunction))
    /\ ComputedChannelQuery =>
          \A i \in 1 .. Size(call.ret[1]) :
             /\ call.op = "ApplyTo" =>
                   /\ call.ret[1].f[i] =
                         RSub(PaddedAt(WrappedApplyTo(Wavefunction).f, i),
                              ExtraNonlocalAt(Wavefunction.f, i))
                   /\ call.ret[1].g[i] =
                         RSub(PaddedAt(WrappedApplyTo(Wavefunction).g, i),
                              ExtraNonlocalAt(Wavefunction.g, i))
             /\ call.op = "GetExchange" =>
                   /\ call.ret[1].f[i] =
                         RAdd(PaddedAt(WrappedGetExchange(call.kappa,
                                                          Size(Wavefunction)).f, i),
                              ExtraNonlocalAt(Wavefunction.f, i))
                   /\ call.ret[1].g[i] =
                         RAdd(PaddedAt(WrappedGetExchange(call.kappa,
                                                          Size(Wavefunction)).g, i),
                              ExtraNonlocalAt(Wavefunction.g, i))

\* ApplyTo has been asked for a wavefunction of a kappa without a potential
\* while the other kappa has one, and has returned a function that is not
\* zero.
C27_Witness ==
    /\ UncomputedChannelQuery
    /\ call.op = "ApplyTo"
    /\ DOMAIN sigmas # {}
    /\ Size(call.ret[1]) = Size(Wavefunction)
    /\ \E i \in 1 .. Size(call.ret[1]) : call.ret[1].f[i] # RZero

----------------------------------------------------------------------------
(* Properties of the sums step by step (SpecLoop).                        *)

\* A sum is running, or has returned.
Running == call.op \in Sums /\ call.pc # "returned"
Returned == call.op \in Sums /\ call.pc = "returned"

\* What the sum of the call as a whole visits: the count of the evaluation
\* taken in one piece.
VisitedInOnePiece ==
    CASE call.op = "CalculateOneElectronSub" ->
            CalculateOneElectronSub(call.ext[1], call.ext[2]).visited
      [] call.op = "CalculateOneElectronValence1" ->
            CalculateOneElectronValence1(call.ext[1], call.ext[2]).visited
      [] call.op = "CalculateTwoElectronValence" ->
            CalculateTwoElectronValence(call.k, call.ext[1], call.ext[2],
                                        call.ext[3], call.ext[4]).visited
      [] call.op = "CalculateTwoElectronValence1" ->
            CalculateTwoElectronValence1(call.ext[1], call.ext[2], call.ext[3],
                                         call.ext[4], call.k, 0).visited
      [] call.op = "CalculateTwoElectronSub" ->
            CalculateTwoElectronSub(call.k, call.ext[1], call.ext[2],
                                    call.ext[3], call.ext[4]).visited
      [] OTHER ->
            CalculateTwoElectronValence2(call.ext[1], call.ext[2], call.ext[3],
                                         call.ext[4], call.k, 0).visited

\* C24: every sum of the engine (one-body, box, subtraction, in
\* ValenceMBPTCalculator and in ValenceCalculator) returns, whatever the
\* excited and high orbitals are: a running sum leads to its return; every
\* step of a loop either advances one iterator by exactly one, or k1 or k2
\* by exactly 2 below their finite bound, or enters or leaves an inner
\* loop; and at the return each iterator has been advanced once for every
\* orbital (or pair), pruned or not.
C24_EverySumReturns ==
    /\ Running ~> Returned
    /\ [](Running =>
            /\ call.it_alpha \in 1 .. Len(IteratedOrbitals(call.op)) + 1
            /\ call.it_beta \in 1 .. Len(IteratedOrbitals(call.op)) + 1
            /\ call.pc = "k1" => call.k1 <= K1Max + 2 /\ K1Max <= MAX_K
            /\ call.pc = "k2" => call.k2 <= K2Max + 2 /\ K2Max <= MAX_K)
    /\ [](Returned =>
            /\ call.visited = VisitedInOnePiece
            /\ call.visited \in
                  {0,
                   Len(IteratedOrbitals(call.op)),
                   2 * Len(IteratedOrbitals(call.op)),
                   Len(IteratedOrbitals(call.op)) * Len(IteratedOrbitals(call.op))})
    /\ [][LoopStep =>
            \/ call'.visited = call.visited + 1
                  /\ (IF call.op \in BoxSums
                      THEN call'.it_beta = call.it_beta + 1 /\ call'.it_alpha = call.it_alpha
                      ELSE call'.it_alpha = call.it_alpha + 1)
            \/ call'.visited = call.visited /\ call.pc = "k1" /\ call'.pc = "k1"
                  /\ call'.k1 = call.k1 + 2
            \/ call'.visited = call.visited /\ call.pc = "k2" /\ call'.pc = "k2"
                  /\ call'.k2 = call.k2 + 2
            \/ call'.visited = call.visited /\ call'.pc # call.pc
            \/ call'.visited = call.visited /\ call'.pass = call.pass + 1]_vars

\* A box sum has returned after passing over pruned pairs and running the
\* k1 and k2 loops of others.
C24_Witness ==
    /\ Returned
    /\ call.op \in BoxSums
    /\ call.visited = Len(IteratedOrbitals(call.op)) * Len(IteratedOrbitals(call.op))
    /\ call.visited > 0
    /\ call.k2 > 0

----------------------------------------------------------------------------
(* Properties of a chain of decorators (SpecChain).                        *)

\* C25: after IncludeExchange(b) on the outermost decorator of a chain of
\* nested SpinorODEDecorators, include_nonlocal of every decorator of the
\* chain and of the innermost SpinorODE is b, whatever the flags were
\* before, and every layer answers b when asked; the call leaves the chain
\* as long as it was.
C25_IncludeExchangeReachesEveryLayer ==
    /\ [](lastOp.op = "IncludeExchange" =>
            /\ include_nonlocal = lastOp.include_exchange
            /\ \A layer \in 1 .. Len(wrapped_include_nonlocal) :
                  wrapped_include_nonlocal[layer] = lastOp.include_exchange
            /\ call.op = "IncludeExchangeQuery" => call.ret = lastOp.include_exchange)
    /\ [][lastOp'.op = "IncludeExchange" =>
             Len(wrapped_include_nonlocal') = Len(wrapped_include_nonlocal)]_vars

\* IncludeExchange(false) has gone through a chain of MaxDepth objects
\* below the outermost decorator, and the innermost SpinorODE answers false.
C25_Witness ==
    /\ lastOp.op = "IncludeExchange"
    /\ ~lastOp.include_exchange
    /\ Len(wrapped_include_nonlocal) = MaxDepth
    /\ call.op = "IncludeExchangeQuery"
    /\ call.layer = MaxDepth
    /\ ~call.ret

----------------------------------------------------------------------------
(* Properties of the decorator as an ODE over a changing map               *)
(* (SpecSnapshot).                                                         *)

\* What CalculateExtraNonlocal makes of the sigma map as it is now for a
\* wavefunction of the kappa of the snapshot.
FromTheMapNow ==
    {CalculateExtraNonlocal(approximation, TRUE) :
        approximation \in {a \in Approximations : a.kappa = currentExchangePotential.kappa}}

\* C26: the nonlocal term of GetODEFunction, GetODECoefficients,
\* GetODEJacobian and GetExchange(NULL) is currentExchangePotential, the
\* snapshot SetODEParameters took from the sigma map as it was then:
\* CalculateSigma and Read leave it as it is, so that the outputs do not
\* follow the map until SetODEParameters is called again; only
\* SetODEParameters sets it (Alert can cut it down to the lattice); and
\* while it is empty, as it is before the first SetODEParameters, the
\* outputs are those of the wrapped operator.
C26_NonlocalTermIsSnapshot ==
    /\ [](lastOp.op = "SetODEParameters" =>
            \E approximation \in Approximations :
               currentExchangePotential = CalculateExtraNonlocal(approximation, TRUE))
    /\ [](call.op = "GetExchangeNull" =>
            call.ret[1] = SpinorPlus(WrappedGetExchange(currentExchangePotential.kappa,
                                                        latticeSize),
                                     currentExchangePotential))
    /\ [](call.op \in ODEOps =>
            /\ call.indexed => call.latticepoint < Size(currentExchangePotential)
            /\ Size(currentExchangePotential) = 0 => call.ret = call.wrapped
            /\ (call.op = "GetODEFunction" /\ call.indexed) =>
                  /\ call.ret.w[1] =
                        RAdd(call.wrapped.w[1],
                             RMul(Alpha, currentExchangePotential.g[call.latticepoint + 1]))
                  /\ call.ret.w[2] =
                        RSub(call.wrapped.w[2],
                             RMul(Alpha, currentExchangePotential.f[call.latticepoint + 1])))
    /\ [][currentExchangePotential' # currentExchangePotential =>
             lastOp'.op \in {"SetODEParameters", "Alert"}]_vars
    /\ [][(sigmas' # sigmas) => currentExchangePotential' = currentExchangePotential]_vars

\* GetODEFunction has added the term of a snapshot that the map no longer
\* gives: a Read has replaced the potential of that kappa since.
C26_Witness ==
    /\ call.op = "GetODEFunction"
    /\ call.indexed
    /\ call.ret # call.wrapped
    /\ lastOp.op = "Read"
    /\ currentExchangePotential.kappa \in DOMAIN sigmas
    /\ currentExchangePotential \notin FromTheMapNow

============================================================================
